---- MODULE Spec2Model ----
(***************************************************************************)
(* Model of the CoS backend: the in-process EventBus and AppState, the     *)
(* two-stage reasoning pipeline (HTTP ask, knowledge ingest, CLI flow),    *)
(* the versioned graph store written through Cypher transactions, and     *)
(* the visibility resolution of traces.                                    *)
(*                                                                         *)
(* Every critical section of the process-wide APP_STATE mutex that holds   *)
(* no await is one atomic action.  Every graph transaction is one atomic   *)
(* action: it either commits as a whole or leaves the graph unchanged.     *)
(* Every await between them is an interleaving point.                      *)
(***************************************************************************)
EXTENDS Integers, Sequences, FiniteSets, TLC

(***************************************************************************)
(* Bounds of the model.                                                    *)
(***************************************************************************)
\* Number of pipeline cycles (ask, ingest, CLI turn) that may be started.
MaxCycles == 2
\* Number of events the EventBus component specification may emit.
MaxEvents == 4
\* Number of ingest requests the sequential ingest specification may issue.
MaxIngests == 4
\* Number of ask and ingest requests the live-stream specification may issue.
MaxPublishes == 2
\* Number of ingest requests the lagging-receiver specification may issue on
\* top of its backlog.
MaxLagPublishes == 2
\* Longest completion text, in lexical items.
MaxText == 4

\* Concurrent request tasks of the HTTP server (the CLI flow uses one).
Procs == {"p1", "p2"}
CliProc == "p1"

\* Decision ids the Stage B completion may name.
LlmDecisionIds == {"d1"}
TruthIds == {"t1", "t2"}
\* Truth ids the requests of the full program specification touch.
HotTruthIds == {"t1"}
\* Non-empty payload strings.
Contents == {"X", "Y"}
\* Content the ingest requests of the full program specification carry.
HotContents == {"Y"}
\* Kinds an ingest request may carry (non-empty after trim).
IngestKinds == {"policy"}
\* Viewer identities: the three seeded ones, the default and an unknown one.
Agents == {"employee_john", "employee_sarah", "employee_bob", "employee_1", "employee_zed"}
Levels == {"full", "summary", "none"}

NullKind == "null"
NoId == ""

(***************************************************************************)
(* State.                                                                  *)
(***************************************************************************)
VARIABLES
    mode,           \* "http" (api::run_server) or "cli" (pocketflow flow), main.rs
    pc,             \* position of every task
    loc,            \* locals of every task
    queue,          \* AppState.event_bus.queue
    private_seq,    \* AppState.private_seq
    private_store,  \* AppState.private_store, as a set of <<agent, key, note>>
    org_truth,      \* AppState.org_truth : truth id -> Vec<String>
    traces,         \* AppState.traces
    events_tx,      \* every ServerEvent::Trace sent on ApiState.events_tx, in order
    graph,          \* the Neo4j property graph (committed state)
    uuid_ctr,       \* number of event ids (Uuid::new_v4()) drawn so far
    cycles,         \* number of cycles started
    persistLog,     \* history: the committed persists of every object, ranked
    drained,        \* history: all events returned by drains, concatenated
    lastDrain,      \* the Vec<Event> returned by the most recent drain
    lastOp,         \* the two most recent EventBus calls, oldest first
    visTrace,       \* input of visibility_for_agent: a trace (topic, routing)
    visViewer,      \* input of visibility_for_agent: the agent id
    visLevel,       \* result of visibility_for_agent, "unset" before the call
    api_key,        \* ApiState.api_key: Option<String>, as a set with at most one key
    subs,           \* the SSE connections: receiver position, identity, delivered items
    qres,           \* the response of the most recent per-agent trace query
    neo4j,          \* AppState.neo4j is Some (init_neo4j succeeded)
    ares,           \* the response of the most recent POST /v1/ask, if it has one yet
    lk,             \* the APP_STATE mutex: its holder and each task's position
    gsnap           \* the response of the most recent viewer-scoped graph snapshot

vars == <<mode, pc, loc, queue, private_seq, private_store, org_truth, traces,
          events_tx, graph, uuid_ctr, cycles, persistLog, drained, lastDrain,
          lastOp, visTrace, visViewer, visLevel,
          api_key, subs, qres, neo4j, ares, lk, gsnap>>

busVars == <<queue, drained, lastDrain, lastOp>>
visVars == <<visTrace, visViewer, visLevel>>
streamVars == <<api_key, subs, qres>>
auxVars == <<neo4j, ares, lk, gsnap>>

(***************************************************************************)
(* Helpers on sequences.                                                   *)
(***************************************************************************)
Range(s) == {s[i] : i \in DOMAIN s}

\* Uuid::new_v4() for an event: the k-th event id drawn; distinct draws
\* are distinct.
Uuid(k) == "u" \o ToString(k)

\* Uuid::new_v4() for the event id of the k-th ingest request (every cycle
\* that is not an ingest stores one private note, so the number of ingests
\* started is cycles - private_seq).
IngestEventId(k) == "k" \o ToString(k)

(***************************************************************************)
(* The graph store.  graph.objects are Decision / TruthObject nodes,       *)
(* graph.versions are DecisionVersion / TruthVersion nodes, graph.current  *)
(* and graph.supersedes are relationships between node element ids.  An    *)
(* element id is opaque and unique: an object node is named by its label   *)
(* and id, a version node by its object and its creation rank in the chain.*)
(***************************************************************************)
EmptyGraph ==
    [objects |-> {}, versions |-> {}, current |-> {}, supersedes |-> {}]

\* format!("{}:v{}", id, version)
version_id(id, version) == <<id, version>>

ObjectOf(g, label, id) == {o \in g.objects : o.label = label /\ o.id = id}

VersionsOf(g, label, id) == {v \in g.versions : v.label = label /\ v.id = id}

\* MATCH (o {id})-[:CURRENT]->(v): the version nodes the pattern returns.
CurrentOf(g, label, id) ==
    {v \in g.versions :
        \E o \in ObjectOf(g, label, id) : <<o.n, v.n>> \in g.current}

\* A query that returns the current version without adding one.
NextVersionOf_NoIncrement(g, label, id) ==
    LET rows == CurrentOf(g, label, id)
    IN  IF rows = {} THEN 1 ELSE (CHOOSE v \in rows : TRUE).version

\* The first row of the CURRENT match, plus one; 1 when there is no row.
NextVersionOf(g, label, id) ==
    LET rows == CurrentOf(g, label, id)
    IN  IF rows = {} THEN 1 ELSE (CHOOSE v \in rows : TRUE).version + 1

next_decision_version(g, decision_id) == NextVersionOf(g, "Decision", decision_id)

\* A query that matches the Decision label instead of TruthObject.
next_truth_version_WrongLabel(g, truth_id) == NextVersionOf(g, "Decision", truth_id)

next_truth_version(g, truth_id) == NextVersionOf(g, "TruthObject", truth_id)

\* A list of every key of the routing object, whatever its level.
routing_agents_AllKeys(routing) == DOMAIN routing

\* routing_agents(): the keys whose level is not "none" (a non-string value reads "none").
routing_agents(routing) == {a \in DOMAIN routing : routing[a] # "none"}

\* Without the uniqueness constraint of the version id.
UniqueViolation_NoConstraint(g, label, id, version) == FALSE

\* REQUIRE dv.decision_version_id IS UNIQUE / tv.truth_version_id IS UNIQUE.
UniqueViolation(g, label, id, version) ==
    \E v \in g.versions : v.label = label /\ v.vid = version_id(id, version)

\* A MERGE that overwrites the kind of a matched node.
MergeObject_Overwrite(g, label, id, kind) ==
    IF ObjectOf(g, label, id) = {}
    THEN [g EXCEPT !.objects = @ \cup {[label |-> label, id |-> id, kind |-> kind,
                                         n |-> <<label, id>>]}]
    ELSE [g EXCEPT !.objects = {[o EXCEPT !.kind = IF o.label = label /\ o.id = id THEN kind ELSE @] : o \in @}]

\* MERGE (o {id}) ON CREATE SET o.kind = $kind ON MATCH SET o.kind = coalesce(o.kind, $kind)
MergeObject(g, label, id, kind) ==
    IF ObjectOf(g, label, id) = {}
    THEN [g EXCEPT !.objects = @ \cup {[label |-> label, id |-> id, kind |-> kind,
                                         n |-> <<label, id>>]}]
    ELSE [g EXCEPT !.objects =
            {[o EXCEPT !.kind = IF o.label = label /\ o.id = id /\ o.kind = NullKind THEN kind ELSE @] : o \in @}]

\* elementId of the version node a CREATE is about to make.
NewVersionNode(g, label, id) == <<label, id, Cardinality(VersionsOf(g, label, id)) + 1>>

\* CREATE (v:...Version {...})
CreateVersion(g, label, id, version, summary, routing) ==
    [g EXCEPT !.versions = @ \cup {[label |-> label, id |-> id, vid |-> version_id(id, version),
                                     version |-> version, summary |-> summary,
                                     routing_agents |-> routing_agents(routing),
                                     routing_json |-> routing,
                                     n |-> NewVersionNode(g, label, id)]}]

\* OPTIONAL MATCH (o)-[c:CURRENT]->(old): the CURRENT relationships of the object.
MatchCurrent(g, objn) == {c \in g.current : c[1] = objn}

\* A retarget that leaves the old CURRENT relationship in place.
RetargetCurrent_KeepOld(g, objn, newn) ==
    [g EXCEPT !.current = @ \cup {<<objn, newn>>}]

\* FOREACH (.. | DELETE c); MERGE (o)-[:CURRENT]->(v)
RetargetCurrent(g, objn, newn) ==
    [g EXCEPT !.current = (@ \ MatchCurrent(g, objn)) \cup {<<objn, newn>>}]

\* A link that points from the old version to the new one.
LinkSupersedes_Reversed(g, newn, olds) ==
    [g EXCEPT !.supersedes = @ \cup {<<c[2], newn>> : c \in olds}]

\* FOREACH (.. old IS NULL ..| MERGE (v)-[:SUPERSEDES]->(old)), for every matched old
LinkSupersedes(g, newn, olds) ==
    [g EXCEPT !.supersedes = @ \cup {<<newn, c[2]>> : c \in olds}]

\* A persist that reports the node ids of a write that did not commit.
PersistVersion_IdsOnFailure(g, label, id, kind, version, summary, agents_involved, routing, txn_ok) ==
    IF ~txn_ok \/ agents_involved = {} \/ UniqueViolation(g, label, id, version)
    THEN [ok |-> FALSE, g |-> g, nodes |-> <<<<label, id>>, NewVersionNode(g, label, id)>>]
    ELSE LET g1 == MergeObject(g, label, id, kind)
             objn == (CHOOSE o \in ObjectOf(g1, label, id) : TRUE).n
             newn == NewVersionNode(g1, label, id)
             g2 == CreateVersion(g1, label, id, version, summary, routing)
             g3 == RetargetCurrent(g2, objn, newn)
             g4 == LinkSupersedes(g3, newn, MatchCurrent(g2, objn))
         IN  [ok |-> TRUE, g |-> g4, nodes |-> <<objn, newn>>]

\* The one Cypher statement of persist_*_version, run and committed in one
\* transaction.  ok = FALSE leaves the graph as it was (the transaction is
\* dropped without commit): txn_ok = FALSE is a transport or server failure,
\* an empty agents_involved makes UNWIND return no row, a taken version id
\* violates the uniqueness constraint.
PersistVersion(g, label, id, kind, version, summary, agents_involved, routing, txn_ok) ==
    IF ~txn_ok \/ agents_involved = {} \/ UniqueViolation(g, label, id, version)
    THEN [ok |-> FALSE, g |-> g, nodes |-> <<>>]
    ELSE LET g1 == MergeObject(g, label, id, kind)
             objn == (CHOOSE o \in ObjectOf(g1, label, id) : TRUE).n
             newn == NewVersionNode(g1, label, id)
             g2 == CreateVersion(g1, label, id, version, summary, routing)
             g3 == RetargetCurrent(g2, objn, newn)
             g4 == LinkSupersedes(g3, newn, MatchCurrent(g2, objn))
         IN  [ok |-> TRUE, g |-> g4, nodes |-> <<objn, newn>>]

persist_decision_version(g, decision_id, version, summary, agents_involved, routing, txn_ok) ==
    PersistVersion(g, "Decision", decision_id, NullKind, version, summary,
                   agents_involved, routing, txn_ok)

persist_truth_version(g, truth_id, kind, version, summary, agents_involved, routing, txn_ok) ==
    PersistVersion(g, "TruthObject", truth_id, kind, version, summary,
                   agents_involved, routing, txn_ok)

\* History of committed persists: the object, the rank of the commit among
\* the commits on that object, the version node id the call returned, and
\* the kind argument it was given.
LogPersist(res, label, id, kind) ==
    IF res.ok
    THEN persistLog \cup
            {[label |-> label, id |-> id, node |-> res.nodes[2], kind |-> kind,
              seq |-> Cardinality({e \in persistLog : e.label = label /\ e.id = id}) + 1]}
    ELSE persistLog

(***************************************************************************)
(* EventBus (runtime/event_bus.rs).                                        *)
(***************************************************************************)
\* A push to the front instead of the back.
emit_Front(q, event) == <<event>> \o q

\* queue.push_back(event)
emit(q, event) == Append(q, event)

\* A drain that returns the events but leaves them queued.
drain_Keep(q) == [events |-> q, queue |-> q]

\* queue.drain(..).collect(): the returned Vec and the queue left behind.
drain(q) == [events |-> q, queue |-> <<>>]

is_empty(q) == Len(q) = 0

(***************************************************************************)
(* AppState (app_state.rs).                                                *)
(***************************************************************************)
\* A store that numbers the notes without advancing the sequence.
store_private_NoIncrement(seq, store, agent, content) ==
    [seq |-> seq,
     key |-> <<agent, seq>>,
     store |-> store \cup {<<agent, <<agent, seq>>, content>>}]

\* private_seq += 1; key = format!("{}:{}", agent, private_seq); insert.
store_private(seq, store, agent, content) ==
    [seq |-> seq + 1,
     key |-> <<agent, seq + 1>>,
     store |-> store \cup {<<agent, <<agent, seq + 1>>, content>>}]

\* org_truth.entry(node).or_default().push(content)
update_org_truth(ot, node, content) == [ot EXCEPT ![node] = Append(@, content)]

\* org_truth.get(node).and_then(|v| v.last()), read with unwrap_or("")
latest_truth(ot, node) == IF ot[node] = <<>> THEN "" ELSE ot[node][Len(ot[node])]

\* A log that keeps the newest trace first.
add_trace_NewestFirst(ts, trace) == <<trace>> \o ts

\* self.traces.push(trace)
add_trace(ts, trace) == Append(ts, trace)

(***************************************************************************)
(* Topics are character sequences, so that trim, to_lowercase and          *)
(* contains are computed as the code computes them.                        *)
(***************************************************************************)
T_general == <<"g", "e", "n", "e", "r", "a", "l">>
T_knowledge == <<"k", "n", "o", "w", "l", "e", "d", "g", "e">>
T_infra_outage == <<"i", "n", "f", "r", "a", " ", "o", "u", "t", "a", "g", "e">>
T_company_picnic == <<"c", "o", "m", "p", "a", "n", "y", " ", "p", "i", "c", "n", "i", "c">>
T_Hiring_plan == <<" ", "H", "i", "r", "i", "n", "g", " ", "p", "l", "a", "n">>

UpperCase == <<"A", "B", "C", "D", "E", "F", "G", "H", "I", "J", "K", "L", "M",
               "N", "O", "P", "Q", "R", "S", "T", "U", "V", "W", "X", "Y", "Z">>
LowerCase == <<"a", "b", "c", "d", "e", "f", "g", "h", "i", "j", "k", "l", "m",
               "n", "o", "p", "q", "r", "s", "t", "u", "v", "w", "x", "y", "z">>
WhiteSpace == {" ", "\t", "\n"}

to_lowercase(s) ==
    [i \in DOMAIN s |->
        IF \E k \in DOMAIN UpperCase : UpperCase[k] = s[i]
        THEN LowerCase[CHOOSE k \in DOMAIN UpperCase : UpperCase[k] = s[i]]
        ELSE s[i]]

trim(s) ==
    LET keep == {i \in DOMAIN s : s[i] \notin WhiteSpace}
    IN  IF keep = {} THEN <<>>
        ELSE LET lo == CHOOSE i \in keep : \A j \in keep : i <= j
                 hi == CHOOSE i \in keep : \A j \in keep : j <= i
             IN  SubSeq(s, lo, hi)

\* str::contains
contains(s, pat) ==
    \E i \in 0..(Len(s) - Len(pat)) : SubSeq(s, i + 1, i + Len(pat)) = pat

(***************************************************************************)
(* Visibility (api.rs).                                                    *)
(***************************************************************************)
HrKeywords == {<<"h", "r">>, <<"p", "e", "o", "p", "l", "e">>, <<"h", "i", "r", "i", "n", "g">>,
               <<"p", "o", "l", "i", "c", "y">>,
               <<"c", "o", "m", "p", "e", "n", "s", "a", "t", "i", "o", "n">>,
               <<"p", "e", "r", "f", "o", "r", "m", "a", "n", "c", "e">>}
EngineerKeywords == {<<"e", "n", "g", "i", "n", "e", "e", "r">>, <<"e", "n", "g">>,
                     <<"t", "e", "c", "h">>, <<"p", "r", "o", "d", "u", "c", "t">>,
                     <<"r", "e", "l", "i", "a", "b">>, <<"i", "n", "f", "r", "a">>}

\* A role lookup whose fallback arm is the top role.
employee_role_from_agent_id_DefaultCeo(agent_id) ==
    CASE agent_id = "employee_john" -> "Ceo"
      [] agent_id = "employee_sarah" -> "Hr"
      [] agent_id = "employee_bob" -> "Engineer"
      [] OTHER -> "Ceo"

employee_role_from_agent_id(agent_id) ==
    CASE agent_id = "employee_john" -> "Ceo"
      [] agent_id = "employee_sarah" -> "Hr"
      [] agent_id = "employee_bob" -> "Engineer"
      [] OTHER -> "Engineer"

\* A role default that matches the keywords against the topic as written.
role_default_visibility_CaseSensitive(role, topic) ==
    LET t == trim(topic)
    IN  CASE role = "Ceo" -> "full"
          [] role = "Hr" -> IF \E k \in HrKeywords : contains(t, k) THEN "summary" ELSE "none"
          [] OTHER -> IF \E k \in EngineerKeywords : contains(t, k) THEN "summary" ELSE "none"

role_default_visibility(role, topic) ==
    LET t == to_lowercase(trim(topic))
    IN  CASE role = "Ceo" -> "full"
          [] role = "Hr" -> IF \E k \in HrKeywords : contains(t, k) THEN "summary" ELSE "none"
          [] OTHER -> IF \E k \in EngineerKeywords : contains(t, k) THEN "summary" ELSE "none"

\* A resolution that lets the top role win over an explicit routing entry.
visibility_for_agent_RoleFirst(trace, agent_id) ==
    IF employee_role_from_agent_id(agent_id) = "Ceo" THEN "full"
    ELSE IF agent_id \in DOMAIN trace.routing THEN trace.routing[agent_id]
    ELSE role_default_visibility(employee_role_from_agent_id(agent_id), trace.topic)

visibility_for_agent(trace, agent_id) ==
    IF agent_id \in DOMAIN trace.routing
    THEN trace.routing[agent_id]
    ELSE role_default_visibility(employee_role_from_agent_id(agent_id), trace.topic)

(***************************************************************************)
(* The HTTP layer (api.rs): credential gate, caller identity, redaction,   *)
(* the broadcast channel behind /v1/stream.  An Option is a set with at    *)
(* most one element.                                                       *)
(***************************************************************************)
\* SSE connections the model follows.
Subs == {"s1", "s2"}

\* broadcast::channel::<ServerEvent>(256)
BroadcastCapacity == 256

\* COS_API_KEY is not set.
NoKey == {}

\* auth_ok: no configured key admits everyone; else the x-api-key header
\* (read as "" when missing) must equal the key.
auth_ok(provided, key) == key = NoKey \/ provided \in key

\* Concatenation of a sequence of one-character strings.
RECURSIVE Join(_)
Join(cs) == IF cs = <<>> THEN "" ELSE Head(cs) \o Join(Tail(cs))

\* normalize_employee_name
normalize_employee_name(s) == to_lowercase(trim(s))

\* resolve_employee_agent_id: the x-employee-name header, else the
\* employee_name field, else the agent_id field; blank values count as absent.
resolve_employee_agent_id(header, employee_name, agent_id_body) ==
    LET hs == {trim(v) : v \in header} \ {<<>>}
        ns == {trim(v) : v \in employee_name} \ {<<>>}
        as == {Join(trim(v)) : v \in agent_id_body} \ {""}
    IN  IF hs # {} THEN {"employee_" \o Join(normalize_employee_name(v)) : v \in hs}
        ELSE IF ns # {} THEN {"employee_" \o Join(normalize_employee_name(v)) : v \in ns}
        ELSE as

\* A redaction that also clears the summary and the rationale.
redact_ClearAll(t, level) ==
    IF level = "summary"
    THEN [t EXCEPT !.evidence = <<>>, !.assumptions = <<>>, !.summary = "", !.rationale = ""]
    ELSE t

\* let mut tt = t.clone(); if level == "summary" { evidence, assumptions = Vec::new() }
redact(t, level) ==
    IF level = "summary" THEN [t EXCEPT !.evidence = <<>>, !.assumptions = <<>>] ELSE t

\* A filter that lets a trace of level "none" through, emptied.
view_for_EmptiedNone(t, agent_id) ==
    LET level == visibility_for_agent(t, agent_id)
    IN  IF level = "none" THEN {[t EXCEPT !.evidence = <<>>, !.assumptions = <<>>]}
        ELSE {redact(t, level)}

\* The body shared by agent_traces and the sse_stream filter: nothing for
\* level "none", else the redacted copy.
view_for(t, agent_id) ==
    LET level == visibility_for_agent(t, agent_id)
    IN  IF level = "none" THEN {} ELSE {redact(t, level)}

\* A stream filter that serves a connection without identity as the default agent.
sse_filter_DefaultIdentity(t, identity) ==
    IF identity = {} THEN view_for(t, "employee_1")
    ELSE UNION {view_for(t, aid) : aid \in identity}

\* The filter_map closure of sse_stream: no identity, no event.
sse_filter(t, identity) == UNION {view_for(t, aid) : aid \in identity}

\* A receiver that yields a value without moving past it.
recv_NoAdvance(tail, next) ==
    IF next > tail THEN [kind |-> "empty", next |-> next, skipped |-> {}]
    ELSE [kind |-> "value", next |-> next, skipped |-> {}]

\* A receiver that, once lagged, skips to the newest value only.
recv_KeepNewestOnly(tail, next) ==
    IF next > tail THEN [kind |-> "empty", next |-> next, skipped |-> {}]
    ELSE IF tail - (next - 1) > BroadcastCapacity
         THEN [kind |-> "lagged", next |-> tail, skipped |-> next..(tail - 1)]
         ELSE [kind |-> "value", next |-> next + 1, skipped |-> {}]

\* broadcast::Receiver::recv for a receiver whose next value is the next-th
\* sent one, tail values having been sent: nothing yet, Lagged (the receiver
\* moves to the oldest value the channel still holds), or the value.
recv(tail, next) ==
    IF next > tail THEN [kind |-> "empty", next |-> next, skipped |-> {}]
    ELSE IF tail - (next - 1) > BroadcastCapacity
         THEN [kind |-> "lagged", next |-> tail - BroadcastCapacity + 1,
               skipped |-> next..(tail - BroadcastCapacity)]
         ELSE [kind |-> "value", next |-> next + 1, skipped |-> {}]

\* A subscription that replays the values the channel still holds.
subscribe_Replay(tail) == IF tail > BroadcastCapacity THEN tail - BroadcastCapacity + 1 ELSE 1

\* events_tx.subscribe(): the receiver starts after the values sent so far.
subscribe(tail) == tail + 1

\* The traces agent_traces collects: newest first, skipping level "none",
\* stopping once limit traces are collected (the test follows the push).
RECURSIVE collect_traces(_, _, _, _)
collect_traces(ts, i, agent_id, limit) ==
    IF i = 0 THEN <<>>
    ELSE LET v == view_for(ts[i], agent_id)
         IN  IF v = {} THEN collect_traces(ts, i - 1, agent_id, limit)
             ELSE IF 1 >= limit THEN <<CHOOSE t \in v : TRUE>>
             ELSE <<CHOOSE t \in v : TRUE>> \o collect_traces(ts, i - 1, agent_id, limit - 1)

\* An SSE connection that was never opened.
NoSub ==
    [on |-> FALSE, agent_id |-> {}, cred |-> "", since |-> 0, next |-> 0,
     acked |-> FALSE, out |-> <<>>, lost |-> {}]

\* No per-agent trace query answered yet.
NoQuery ==
    [status |-> "none", caller |-> {}, agent_id |-> NoId, limit |-> 0, log_len |-> 0,
     traces |-> <<>>]

(***************************************************************************)
(* Inputs of the pipeline: what callers send and what the completion       *)
(* collaborator answers.                                                   *)
(***************************************************************************)
\* Resolved caller identities of ask requests.
AskAgents == {"employee_bob"}
AskTopics == {T_infra_outage}
Notes == {"note"}
\* The routing objects a completion or an ingest request may carry.
NoRouting == [a \in {} |-> "none"]
RoutingChoices == {[a \in {"employee_sarah", "employee_bob"} |->
                        IF a = "employee_bob" THEN "none" ELSE "full"]}
\* summary of the Stage B answer ("" makes the decision label the summary).
Summaries == {"S"}
DecisionLabel == "respond"
\* rationale of the Stage B answer.
Rationale == "why"
\* org_updates of the Stage B answer: truth id -> update string ("" is ignored).
NoUpdates == [t \in {} |-> ""]
OrgUpdateChoices ==
    {NoUpdates,
     [t \in {"t1"} |-> "X"],
     [t \in {"t1"} |-> ""]}

\* All orders in which a map with the keys S may be iterated.
Orders(S) == {s \in [1..Cardinality(S) -> S] : Range(s) = S}

(***************************************************************************)
(* Locals of a task.                                                       *)
(***************************************************************************)
NoLoc ==
    [op |-> "none", agent |-> NoId, topic |-> <<>>, events |-> <<>>, event_id |-> NoId,
     decision_id |-> NoId, summary |-> "", version |-> 0, routing |-> NoRouting,
     evidence |-> <<>>, assumptions |-> <<>>,
     updates |-> <<>>, truth_id |-> NoId, v |-> 0, content |-> "", kind |-> NoId,
     nodes |-> <<>>,
     out |-> <<>>,       \* employee_out, then org_out: the completion text last received
     response_text |-> <<>>,
     org_updates |-> NoUpdates,   \* org_parsed["org_updates"] as the completion gave it
     q_ok |-> FALSE]     \* the version held for the pending write came from a query that succeeded

\* The ReasoningTrace a cycle builds from its locals.
\* service.rs 405-417 (ask), 81-100 (ingest), nodes.rs 387-399 (CLI).
TraceOf(l) ==
    [decision_id |-> l.decision_id,
     topic |-> l.topic,
     summary |-> l.summary,
     version |-> l.version,
     evidence |-> l.evidence,
     assumptions |-> l.assumptions,
     trigger_events |-> IF l.op = "ingest" THEN <<l.event_id>>
                        ELSE [i \in DOMAIN l.events |-> l.events[i].event_id],
     agents_involved |-> IF l.op = "ingest" THEN <<l.agent>>
                         ELSE [i \in DOMAIN l.events |-> l.events[i].emitted_by],
     graph_updates |-> l.nodes,
     routing |-> l.routing,
     rationale |-> IF l.op = "ingest" THEN "knowledge_ingest" ELSE Rationale]

\* trigger_events / agents_involved handed to persist_*_version.
PersistAgents(l) ==
    IF l.op = "cli" THEN {l.events[i].emitted_by : i \in DOMAIN l.events} ELSE {l.agent}

(***************************************************************************)
(* Initial state: AppState::new(), an empty graph with the constraints of  *)
(* run_migrations in place, no task running.                               *)
(***************************************************************************)
\* No POST /v1/ask has been answered yet.
\* No request: an empty x-api-key header read as "", no identity, no input.
NoRequest ==
    [cred |-> "", json |-> TRUE, header |-> {}, employee_name |-> {}, agent_id |-> {},
     text |-> {}, audio_base64 |-> {}]

\* The response of ask, with the request it answers; status "none" while the
\* request is under way.
NoAsk == [status |-> "none", error |-> "", req |-> NoRequest]

Answer(status, error) == [NoAsk EXCEPT !.status = status, !.error = error]

\* Nobody holds APP_STATE and no task is inside a handler.
NoLock == [holder |-> "none", op |-> [p \in Procs |-> "none"], at |-> [p \in Procs |-> 0]]

\* No viewer-scoped graph snapshot answered yet.
NoSnapshot == [status |-> "none", agent_id |-> NoId, versions |-> {}, nodes |-> {}, edges |-> {}]

\* main ran init_neo4j before any request is served.
AuxInit ==
    /\ neo4j = TRUE
    /\ ares = NoAsk
    /\ lk = NoLock
    /\ gsnap = NoSnapshot

\* AppState::new(): empty queue, stores, logs and counters.
InitState ==
    /\ pc = [p \in Procs |-> "idle"]
    /\ loc = [p \in Procs |-> NoLoc]
    /\ queue = <<>>
    /\ private_seq = 0
    /\ private_store = {}
    /\ org_truth = [t \in TruthIds |-> <<>>]
    /\ traces = <<>>
    /\ events_tx = <<>>
    /\ graph = EmptyGraph
    /\ uuid_ctr = 0
    /\ cycles = 0
    /\ persistLog = {}
    /\ drained = <<>>
    /\ lastDrain = <<>>
    /\ lastOp = <<"none", "none">>

InitCommon ==
    /\ AuxInit
    /\ InitState

VisUnset ==
    /\ visTrace = [topic |-> <<>>, routing |-> NoRouting]
    /\ visViewer = NoId
    /\ visLevel = "unset"

\* No credential configured, no SSE connection, no trace query answered.
StreamUnset ==
    /\ api_key = NoKey
    /\ subs = [s \in Subs |-> NoSub]
    /\ qres = NoQuery

Init ==
    /\ mode \in {"http", "cli"}
    /\ InitCommon
    /\ VisUnset
    /\ StreamUnset

(***************************************************************************)
(* HTTP ask: api::ask -> service::ask_and_persist.                         *)
(***************************************************************************)
\* Stage A completion, then the critical section that stores the private
\* note, emits the event and drains the bus.
AskFrom(p, from, limit, agents, parsed) ==
    /\ mode = "http"
    /\ pc[p] = from
    /\ cycles < limit
    /\ \E agent \in agents, employee_parsed \in parsed :
        LET topic == employee_parsed.topic
            sp == store_private(private_seq, private_store, agent,
                                employee_parsed.private_note)
            event == [event_id |-> Uuid(uuid_ctr + 1), emitted_by |-> agent,
                      event_type |-> employee_parsed.event_type,
                      topic |-> topic, confidence |-> employee_parsed.confidence,
                      references |-> <<sp.key>>]
            d == drain(emit(queue, event))
        IN  /\ private_seq' = sp.seq
            /\ private_store' = sp.store
            /\ queue' = d.queue
            /\ drained' = drained \o d.events
            /\ lastDrain' = d.events
            /\ lastOp' = <<"emit", "drain">>
            /\ uuid_ctr' = uuid_ctr + 1
            /\ loc' = [loc EXCEPT ![p] = [NoLoc EXCEPT !.op = "ask", !.agent = agent,
                                           !.topic = topic, !.events = d.events,
                                           !.event_id = event.event_id]]
    /\ pc' = [pc EXCEPT ![p] = "stage_b"]
    /\ cycles' = cycles + 1
    /\ UNCHANGED <<mode, org_truth, traces, events_tx, graph, persistLog, visVars, streamVars, auxVars>>

\* What Stage A reads out of a completion that followed the prompt.
Parsed(topics) ==
    {[event_type |-> "update", topic |-> topic, confidence |-> "0.5", private_note |-> note] :
        topic \in topics, note \in Notes}

AskStart(p, limit, agents, topics) == AskFrom(p, "idle", limit, agents, Parsed(topics))

AskStageA(p) == AskStart(p, MaxCycles, AskAgents, AskTopics)

\* Decision ids a completion can name.
SuppliedDecisionIds == LlmDecisionIds

\* A decision id that is not fresh.
MintedDecisionId_Constant(event_id) == "d-u1"

\* uuid::Uuid::new_v4().to_string() for a decision: a fresh id, named after
\* the first event of the cycle that mints it (one mint per cycle).
MintedDecisionId(event_id) == "d-" \o event_id

\* The org_updates loop: push every non-empty update, remember its truth id.
RECURSIVE ApplyOrgUpdates(_, _, _)
ApplyOrgUpdates(ot, upd, order) ==
    IF order = <<>> THEN [org_truth |-> ot, ids |-> <<>>]
    ELSE LET k == Head(order)
             rest == ApplyOrgUpdates(IF upd[k] # "" THEN update_org_truth(ot, k, upd[k]) ELSE ot,
                                     upd, Tail(order))
         IN  [org_truth |-> rest.org_truth,
              ids |-> IF upd[k] # "" THEN <<k>> \o rest.ids ELSE rest.ids]

\* Retrieval, truth snapshot and Stage B completion failed: the cycle ends
\* with an error and its drained events are gone.
StageBFail(p) ==
    /\ pc[p] = "stage_b"
    /\ pc' = [pc EXCEPT ![p] = "idle"]
    /\ loc' = [loc EXCEPT ![p] = NoLoc]
    /\ UNCHANGED <<mode, queue, private_seq, private_store, org_truth, traces, events_tx,
                   graph, uuid_ctr, cycles, persistLog, drained, lastDrain, lastOp, visVars, streamVars, auxVars>>

\* The parse of org_out, the critical section that applies org_updates,
\* then the decision id.
StageBWith(p, from, answers) ==
    /\ pc[p] = from
    /\ \E org \in answers :
        \E order \in Orders(DOMAIN org.org_updates) :
            LET ap == ApplyOrgUpdates(org_truth, org.org_updates, order)
                mint == org.decision_id = NoId
            IN  /\ org_truth' = ap.org_truth
                /\ loc' = [loc EXCEPT ![p].decision_id =
                                          IF mint THEN MintedDecisionId(loc[p].events[1].event_id)
                                          ELSE org.decision_id,
                                      ![p].summary = IF org.summary = "" THEN org.decision
                                                     ELSE org.summary,
                                      ![p].routing = org.routing,
                                      ![p].evidence = org.evidence,
                                      ![p].assumptions = org.assumptions,
                                      ![p].response_text = org.response_text,
                                      ![p].topic = IF loc[p].op = "cli" THEN T_general ELSE @,
                                      ![p].version = 1,
                                      ![p].updates = ap.ids]
    /\ pc' = [pc EXCEPT ![p] = IF neo4j THEN "next_decision" ELSE "add_trace"]
    /\ UNCHANGED <<mode, queue, private_seq, private_store, traces, events_tx, graph,
                   uuid_ctr, cycles, persistLog, drained, lastDrain, lastOp, visVars, streamVars, auxVars>>

\* What Stage B reads out of a completion that followed the prompt.
OrgAnswers(ids, routings, updates) ==
    {[decision_id |-> decision_id_in, decision |-> DecisionLabel, summary |-> summary,
      routing |-> routing, org_updates |-> org_updates, evidence |-> <<"e1">>,
      assumptions |-> <<"a1">>, response_text |-> <<>>] :
        decision_id_in \in ids, summary \in Summaries, routing \in routings,
        org_updates \in updates}

\* Retrieval, truth snapshot and Stage B completion, then the parse and what
\* follows it.
StageBAnswer(p, ids, routings, updates) ==
    StageBWith(p, "stage_b", OrgAnswers(ids, routings, updates))

StageB(p) == StageBAnswer(p, {NoId} \cup SuppliedDecisionIds, RoutingChoices, OrgUpdateChoices)

\* next_decision_version(...).await.unwrap_or(1)
NextDecision(p, query_ok) ==
    /\ pc[p] = "next_decision"
    /\ loc' = [loc EXCEPT ![p].version =
                    IF query_ok THEN next_decision_version(graph, loc[p].decision_id) ELSE 1,
                           ![p].q_ok = query_ok]
    /\ pc' = [pc EXCEPT ![p] = "persist_decision"]
    /\ UNCHANGED <<mode, queue, private_seq, private_store, org_truth, traces, events_tx,
                   graph, uuid_ctr, cycles, persistLog, drained, lastDrain, lastOp, visVars, streamVars, auxVars>>

AfterPersist(l) == IF l.updates = <<>> THEN "add_trace" ELSE "next_truth"

\* if let Ok(upd) = persist_decision_version(...).await { graph_updates.extend }
PersistDecision(p, txn_ok) ==
    /\ pc[p] = "persist_decision"
    /\ LET l == loc[p]
           res == persist_decision_version(graph, l.decision_id, l.version, l.summary,
                                           PersistAgents(l), l.routing, txn_ok)
       IN  /\ graph' = res.g
           /\ persistLog' = LogPersist(res, "Decision", l.decision_id, NullKind)
           /\ loc' = [loc EXCEPT ![p].nodes = @ \o res.nodes, ![p].q_ok = FALSE]
    /\ pc' = [pc EXCEPT ![p] = AfterPersist(loc[p])]
    /\ UNCHANGED <<mode, queue, private_seq, private_store, org_truth, traces, events_tx,
                   uuid_ctr, cycles, drained, lastDrain, lastOp, visVars, streamVars, auxVars>>

\* next_truth_version(graph, truth_id).await.unwrap_or(1) for the next updated id
NextTruth(p) ==
    /\ pc[p] = "next_truth"
    /\ \E query_ok \in BOOLEAN :
        loc' = [loc EXCEPT ![p].truth_id = Head(loc[p].updates),
                           ![p].updates = Tail(loc[p].updates),
                           ![p].v = IF query_ok
                                    THEN next_truth_version(graph, Head(loc[p].updates))
                                    ELSE 1,
                           ![p].q_ok = query_ok]
    /\ pc' = [pc EXCEPT ![p] = "latest_truth"]
    /\ UNCHANGED <<mode, queue, private_seq, private_store, org_truth, traces, events_tx,
                   graph, uuid_ctr, cycles, persistLog, drained, lastDrain, lastOp, visVars, streamVars, auxVars>>

\* content = latest_truth(truth_id); an empty content skips the write.
LatestTruth(p) ==
    /\ pc[p] = "latest_truth"
    /\ LET content == latest_truth(org_truth, loc[p].truth_id)
       IN  /\ loc' = IF content = ""
                     THEN [loc EXCEPT ![p].truth_id = NoId, ![p].v = 0, ![p].q_ok = FALSE]
                     ELSE [loc EXCEPT ![p].content = content]
           /\ pc' = [pc EXCEPT ![p] = IF content = "" THEN AfterPersist(loc[p])
                                      ELSE "persist_truth"]
    /\ UNCHANGED <<mode, queue, private_seq, private_store, org_truth, traces, events_tx,
                   graph, uuid_ctr, cycles, persistLog, drained, lastDrain, lastOp, visVars, streamVars, auxVars>>

\* if let Ok(upd) = persist_truth_version(.., "org_truth", v, content, ..).await
PersistTruth(p) ==
    /\ pc[p] = "persist_truth"
    /\ \E txn_ok \in BOOLEAN :
        LET l == loc[p]
            res == persist_truth_version(graph, l.truth_id, "org_truth", l.v, l.content,
                                         PersistAgents(l), l.routing, txn_ok)
        IN  /\ graph' = res.g
            /\ persistLog' = LogPersist(res, "TruthObject", l.truth_id, "org_truth")
            /\ loc' = [loc EXCEPT ![p].nodes = @ \o res.nodes, ![p].truth_id = NoId,
                                  ![p].v = 0, ![p].content = "", ![p].q_ok = FALSE]
    /\ pc' = [pc EXCEPT ![p] = AfterPersist(loc[p])]
    /\ UNCHANGED <<mode, queue, private_seq, private_store, org_truth, traces, events_tx,
                   uuid_ctr, cycles, drained, lastDrain, lastOp, visVars, streamVars, auxVars>>

\* state.add_trace(trace); the CLI turn ends here, ask goes on to send.
AddTrace(p) ==
    /\ pc[p] = "add_trace"
    /\ traces' = add_trace(traces, TraceOf(loc[p]))
    /\ pc' = [pc EXCEPT ![p] = IF loc[p].op = "cli" THEN "idle" ELSE "send"]
    /\ loc' = [loc EXCEPT ![p] = IF loc[p].op = "cli" THEN NoLoc ELSE @]
    /\ UNCHANGED <<mode, queue, private_seq, private_store, org_truth, events_tx, graph,
                   uuid_ctr, cycles, persistLog, drained, lastDrain, lastOp, visVars, streamVars, auxVars>>

\* api::ask: events_tx.send(ServerEvent::Trace(trace)) and the response.
AskSend(p) ==
    /\ pc[p] = "send"
    /\ events_tx' = Append(events_tx, TraceOf(loc[p]))
    /\ pc' = [pc EXCEPT ![p] = "idle"]
    /\ loc' = [loc EXCEPT ![p] = NoLoc]
    /\ UNCHANGED <<mode, queue, private_seq, private_store, org_truth, traces, graph,
                   uuid_ctr, cycles, persistLog, drained, lastDrain, lastOp, visVars, streamVars, auxVars>>

(***************************************************************************)
(* Knowledge ingest: api::ingest_knowledge -> service::ingest_knowledge.   *)
(***************************************************************************)
\* The request passed validation (non-empty truth_id and kind, routing an
\* object); the critical section pushes the content to the truth snapshot.
IngestStart(p, limit, ids, contents) ==
    /\ mode = "http"
    /\ pc[p] = "idle"
    /\ cycles < limit
    /\ \E truth_id \in ids, kind \in IngestKinds, content \in contents,
          routing \in RoutingChoices :
        /\ org_truth' = update_org_truth(org_truth, truth_id, content)
        /\ loc' = [loc EXCEPT ![p] = [NoLoc EXCEPT !.op = "ingest", !.agent = "employee_1",
                                       !.topic = T_knowledge,
                                       !.event_id = IngestEventId(cycles - private_seq + 1),
                                       !.decision_id = truth_id, !.truth_id = truth_id,
                                       !.kind = kind, !.content = content,
                                       !.summary = content, !.routing = routing]]
    /\ pc' = [pc EXCEPT ![p] = IF neo4j THEN "ingest_next" ELSE "ingest_return"]
    /\ cycles' = cycles + 1
    /\ UNCHANGED <<mode, queue, private_seq, private_store, traces, events_tx, graph,
                   uuid_ctr, persistLog, drained, lastDrain, lastOp, visVars, streamVars, auxVars>>

IngestBegin(p) == IngestStart(p, MaxCycles, HotTruthIds, HotContents)

\* next_truth_version(graph, &truth_id).await.unwrap_or(1)
IngestNext(p, query_ok) ==
    /\ pc[p] = "ingest_next"
    /\ loc' = [loc EXCEPT ![p].version =
                   IF query_ok THEN next_truth_version(graph, loc[p].truth_id) ELSE 1,
                          ![p].q_ok = query_ok]
    /\ pc' = [pc EXCEPT ![p] = "ingest_persist"]
    /\ UNCHANGED <<mode, queue, private_seq, private_store, org_truth, traces, events_tx,
                   graph, uuid_ctr, cycles, persistLog, drained, lastDrain, lastOp, visVars, streamVars, auxVars>>

\* if let Ok(upd) = persist_truth_version(.., kind, version, content, ..).await
IngestPersist(p, txn_ok) ==
    /\ pc[p] = "ingest_persist"
    /\ LET l == loc[p]
           res == persist_truth_version(graph, l.truth_id, l.kind, l.version, l.content,
                                        {l.agent}, l.routing, txn_ok)
       IN  /\ graph' = res.g
           /\ persistLog' = LogPersist(res, "TruthObject", l.truth_id, l.kind)
           /\ loc' = [loc EXCEPT ![p].nodes = @ \o res.nodes, ![p].q_ok = FALSE]
    /\ pc' = [pc EXCEPT ![p] = "ingest_return"]
    /\ UNCHANGED <<mode, queue, private_seq, private_store, org_truth, traces, events_tx,
                   uuid_ctr, cycles, drained, lastDrain, lastOp, visVars, streamVars, auxVars>>

\* Ok(ReasoningTrace {..}) and api::ingest_knowledge: events_tx.send(trace).
IngestReturn(p) ==
    /\ pc[p] = "ingest_return"
    /\ events_tx' = Append(events_tx, TraceOf(loc[p]))
    /\ pc' = [pc EXCEPT ![p] = "idle"]
    /\ loc' = [loc EXCEPT ![p] = NoLoc]
    /\ UNCHANGED <<mode, queue, private_seq, private_store, org_truth, traces, graph,
                   uuid_ctr, cycles, persistLog, drained, lastDrain, lastOp, visVars, streamVars, auxVars>>

(***************************************************************************)
(* The CLI flow (main.rs, nodes.rs): get_input -> employee -> brain.       *)
(***************************************************************************)
\* EmployeeAgentNode::execute: Stage A, store_private and emit in one
\* critical section; the flow goes on to the brain node.
CliEmployeeWith(p, from, parsed) ==
    /\ mode = "cli"
    /\ p = CliProc
    /\ pc[p] = from
    /\ cycles < MaxCycles
    /\ \E employee_parsed \in parsed :
        LET sp == store_private(private_seq, private_store, "employee_1",
                                employee_parsed.private_note)
            event == [event_id |-> Uuid(uuid_ctr + 1), emitted_by |-> "employee_1",
                      event_type |-> employee_parsed.event_type,
                      topic |-> employee_parsed.topic,
                      confidence |-> employee_parsed.confidence,
                      references |-> <<sp.key>>]
        IN  /\ private_seq' = sp.seq
            /\ private_store' = sp.store
            /\ queue' = emit(queue, event)
    /\ lastOp' = <<lastOp[2], "emit">>
    /\ uuid_ctr' = uuid_ctr + 1
    /\ pc' = [pc EXCEPT ![p] = "cli_brain"]
    /\ cycles' = cycles + 1
    /\ UNCHANGED <<mode, loc, org_truth, traces, events_tx, graph, persistLog, drained,
                   lastDrain, visVars, streamVars, auxVars>>

CliEmployee(p) == CliEmployeeWith(p, "idle", Parsed(AskTopics))

\* OrgBrainNode::execute: drain under the lock; an empty batch is a no-op.
CliBrainDrain(p) ==
    /\ pc[p] = "cli_brain"
    /\ LET d == drain(queue)
       IN  /\ queue' = d.queue
           /\ drained' = drained \o d.events
           /\ lastDrain' = d.events
           /\ lastOp' = <<lastOp[2], "drain">>
           /\ loc' = [loc EXCEPT ![p] = IF is_empty(d.events) THEN NoLoc
                                         ELSE [NoLoc EXCEPT !.op = "cli",
                                                            !.agent = "employee_1",
                                                            !.events = d.events]]
           /\ pc' = [pc EXCEPT ![p] = IF is_empty(d.events) THEN "idle" ELSE "stage_b"]
    /\ UNCHANGED <<mode, private_seq, private_store, org_truth, traces, events_tx, graph,
                   uuid_ctr, cycles, persistLog, visVars, streamVars, auxVars>>

(***************************************************************************)
(* The program: any interleaving of the tasks' steps.                      *)
(***************************************************************************)
Next ==
    \E p \in Procs :
        \/ AskStageA(p)
        \/ StageBFail(p)
        \/ StageB(p)
        \/ \E query_ok \in BOOLEAN : NextDecision(p, query_ok)
        \/ \E txn_ok \in BOOLEAN : PersistDecision(p, txn_ok)
        \/ NextTruth(p)
        \/ LatestTruth(p)
        \/ PersistTruth(p)
        \/ AddTrace(p)
        \/ AskSend(p)
        \/ IngestBegin(p)
        \/ \E query_ok \in BOOLEAN : IngestNext(p, query_ok)
        \/ \E txn_ok \in BOOLEAN : IngestPersist(p, txn_ok)
        \/ IngestReturn(p)
        \/ CliEmployee(p)
        \/ CliBrainDrain(p)

Spec == Init /\ [][Next]_vars

(***************************************************************************)
(* Start-up (main): AppState::new() leaves the graph store handle None;    *)
(* init_neo4j connects, migrates and seeds, and its error ends the process *)
(* before the server or the CLI flow is entered.                           *)
(***************************************************************************)
InitBoot ==
    /\ mode = "boot"
    /\ neo4j = FALSE
    /\ ares = NoAsk
    /\ lk = NoLock
    /\ gsnap = NoSnapshot
    /\ InitState
    /\ VisUnset
    /\ StreamUnset

\* state.init_neo4j().await? and the COS_HTTP switch.
InitNeo4j(store_up) ==
    /\ mode = "boot"
    /\ neo4j' = store_up
    /\ mode' \in IF store_up THEN {"http", "cli"} ELSE {"exit"}
    /\ UNCHANGED <<pc, loc, queue, private_seq, private_store, org_truth, traces, events_tx,
                   graph, uuid_ctr, cycles, persistLog, drained, lastDrain, lastOp,
                   visVars, streamVars, ares, lk, gsnap>>

NextBoot ==
    \/ \E store_up \in BOOLEAN : InitNeo4j(store_up)
    \/ Next

SpecBoot == InitBoot /\ [][NextBoot]_vars

SeqIngestBegin(p) ==
    /\ \A q \in Procs : pc[q] = "idle"
    /\ IngestStart(p, MaxIngests, TruthIds, Contents)

InitHttp ==
    /\ mode = "http"
    /\ InitCommon
    /\ VisUnset
    /\ StreamUnset

NextSeqIngest ==
    \E p \in Procs :
        \/ SeqIngestBegin(p)
        \/ IngestNext(p, TRUE)
        \/ IngestPersist(p, TRUE)
        \/ IngestReturn(p)

SpecSeqIngest == InitHttp /\ [][NextSeqIngest]_vars

(***************************************************************************)
(* The EventBus on its own: any sequence of emit and drain calls.          *)
(***************************************************************************)
BusAgents == {"employee_1", "employee_bob"}
BusTopics == {T_general, T_infra_outage}

\* AppState::emit -> EventBus::emit
BusEmit ==
    /\ uuid_ctr < MaxEvents
    /\ \E agent \in BusAgents, topic \in BusTopics :
        queue' = emit(queue, [event_id |-> Uuid(uuid_ctr + 1), emitted_by |-> agent,
                              topic |-> topic, references |-> <<>>])
    /\ uuid_ctr' = uuid_ctr + 1
    /\ lastOp' = <<lastOp[2], "emit">>
    /\ UNCHANGED <<mode, pc, loc, private_seq, private_store, org_truth, traces, events_tx,
                   graph, cycles, persistLog, drained, lastDrain, visVars, streamVars, auxVars>>

\* AppState::drain_events -> EventBus::drain
BusDrain ==
    /\ LET d == drain(queue)
       IN  /\ queue' = d.queue
           /\ drained' = drained \o d.events
           /\ lastDrain' = d.events
    /\ lastOp' = <<lastOp[2], "drain">>
    /\ UNCHANGED <<mode, pc, loc, private_seq, private_store, org_truth, traces, events_tx,
                   graph, uuid_ctr, cycles, persistLog, visVars, streamVars, auxVars>>

NextBus == BusEmit \/ BusDrain

SpecBus == InitHttp /\ [][NextBus]_vars

(***************************************************************************)
(* visibility_for_agent on its own: any trace routing, topic and viewer.   *)
(***************************************************************************)
VisTopics == {T_general, T_knowledge, T_infra_outage, T_company_picnic, T_Hiring_plan}
\* Agents a routing object may name, and the level strings it may give them.
VisRouted == {"employee_john", "employee_bob", "employee_zed"}
VisLevelStrings == Levels \cup {"secret"}
\* The JSON values a routing object may hold: any string, or a non-string.
JsonValues == {<<"string", l>> : l \in VisLevelStrings} \cup {<<"number", "1">>}
\* obj.iter().map(|(k, v)| (k, v.as_str().unwrap_or("none"))): a string value is
\* kept as it is, any other value reads as "none".
routing_map(obj) == [k \in DOMAIN obj |-> IF obj[k][1] = "string" THEN obj[k][2] ELSE "none"]
VisRoutings == {routing_map(obj) : obj \in UNION {[S -> JsonValues] : S \in SUBSET VisRouted}}

InitVis ==
    /\ mode = "http"
    /\ InitCommon
    /\ visTrace \in [topic : VisTopics, routing : VisRoutings]
    /\ visViewer \in Agents
    /\ visLevel = "unset"
    /\ StreamUnset

VisResolve ==
    /\ visLevel = "unset"
    /\ visLevel' = visibility_for_agent(visTrace, visViewer)
    /\ UNCHANGED <<mode, pc, loc, queue, private_seq, private_store, org_truth, traces,
                   events_tx, graph, uuid_ctr, cycles, persistLog, drained, lastDrain,
                   lastOp, visTrace, visViewer, streamVars, auxVars>>

NextVis == VisResolve

SpecVis == InitVis /\ [][NextVis]_vars

(***************************************************************************)
(* The live stream and the per-agent trace query: ask and ingest requests  *)
(* handled one after another by one task against a graph store that        *)
(* answers, SSE connections opening and reading at any time, trace queries *)
(* at any time.                                                            *)
(***************************************************************************)
StreamProc == "p1"
StreamTopics == {T_infra_outage, T_company_picnic}

\* Values of the x-employee-name header and of the employee_name parameter.
N_blank == <<" ">>
N_Bob == <<" ", "B", "o", "b">>
N_john == <<"j", "o", "h", "n">>

\* What a connection may send: header values and parameter values.
SubHeaders == {{}, {N_blank}, {N_Bob}}
SubParams == {{}, {N_john}}
\* The connection this specification follows.
StreamSubs == {"s1"}

\* The items a connection has been handed: the acknowledgment, then traces,
\* each noted with its position in the channel.
Connected == [type |-> "connected", seq |-> 0, data |-> {}]
TraceItems(seq, ts) == IF ts = {} THEN <<>> ELSE <<[type |-> "trace", seq |-> seq, data |-> ts]>>

StreamAskBegin(p) ==
    /\ p = StreamProc
    /\ AskStart(p, MaxPublishes, {"employee_bob"}, StreamTopics)

StreamStageB(p) == StageBAnswer(p, {NoId}, {NoRouting}, {NoUpdates})

StreamIngestBegin(p) ==
    /\ p = StreamProc
    /\ IngestStart(p, MaxPublishes, HotTruthIds, HotContents)

\* sse_stream up to the returned Sse: subscribe, resolve the identity.
Subscribe(s, headers, params, creds) ==
    /\ ~subs[s].on
    /\ \E header \in headers, employee_name \in params, cred \in creds :
        subs' = [subs EXCEPT ![s] =
                    [on |-> TRUE,
                     agent_id |-> resolve_employee_agent_id(header, employee_name, {}),
                     cred |-> cred,
                     since |-> Len(events_tx),
                     next |-> subscribe(Len(events_tx)),
                     acked |-> FALSE, out |-> <<>>, lost |-> {}]]
    /\ UNCHANGED <<mode, pc, loc, queue, private_seq, private_store, org_truth, traces,
                   events_tx, graph, uuid_ctr, cycles, persistLog, drained, lastDrain,
                   lastOp, visVars, api_key, qres, auxVars>>

\* The connection's stream is polled: first the acknowledgment, then what
\* the receiver yields; a Lagged error is dropped by msg.ok(), a value goes
\* through the identity filter.
SsePoll(s) ==
    /\ subs[s].on
    /\ LET c == subs[s]
           r == recv(Len(events_tx), c.next)
       IN  IF ~c.acked
           THEN subs' = [subs EXCEPT ![s].acked = TRUE, ![s].out = Append(@, Connected)]
           ELSE /\ r.kind # "empty"
                /\ subs' = [subs EXCEPT
                       ![s].next = r.next,
                       ![s].lost = @ \cup r.skipped,
                       ![s].out = IF r.kind = "value"
                                  THEN @ \o TraceItems(c.next, sse_filter(events_tx[c.next], c.agent_id))
                                  ELSE @]
    /\ UNCHANGED <<mode, pc, loc, queue, private_seq, private_store, org_truth, traces,
                   events_tx, graph, uuid_ctr, cycles, persistLog, drained, lastDrain,
                   lastOp, visVars, api_key, qres, auxVars>>

\* What a trace query may send: the x-employee-name header with the agent id
\* of the path (an own view, the top role's own view, another agent's view),
\* and the limit.
QueryRequests == {<<{N_Bob}, "employee_bob">>, <<{N_john}, "employee_john">>,
                  <<{N_Bob}, "employee_john">>}
QueryLimits == {50}

\* agent_traces: credential, caller identity, own view or Ceo, then the
\* visible traces under the lock.
AgentTraces(requests, limits, creds) ==
    /\ \E req \in requests, limit \in limits, provided \in creds :
        LET header == req[1]
            agent_id == req[2]
            caller == resolve_employee_agent_id(header, {}, {})
            status == IF ~auth_ok(provided, api_key) THEN "401"
                      ELSE IF caller = {} THEN "400"
                      ELSE IF \E c \in caller : /\ employee_role_from_agent_id(c) # "Ceo"
                                                /\ c # agent_id THEN "403"
                      ELSE "200"
        IN  qres' = [status |-> status, caller |-> caller, agent_id |-> agent_id,
                     limit |-> limit, log_len |-> Len(traces),
                     traces |-> IF status = "200"
                                THEN collect_traces(traces, Len(traces), agent_id, limit)
                                ELSE <<>>]
    /\ UNCHANGED <<mode, pc, loc, queue, private_seq, private_store, org_truth, traces,
                   events_tx, graph, uuid_ctr, cycles, persistLog, drained, lastDrain,
                   lastOp, visVars, api_key, subs, auxVars>>

\* A step of an ask or ingest request.
StreamRequest(p) ==
    \/ StreamAskBegin(p)
    \/ StageBFail(p)
    \/ StreamStageB(p)
    \/ NextDecision(p, TRUE)
    \/ PersistDecision(p, TRUE)
    \/ AddTrace(p)
    \/ AskSend(p)
    \/ StreamIngestBegin(p)
    \/ IngestNext(p, TRUE)
    \/ IngestPersist(p, TRUE)
    \/ IngestReturn(p)

NextStream ==
    \/ \E p \in Procs : StreamRequest(p)
    \/ \E s \in StreamSubs :
        \/ Subscribe(s, SubHeaders, SubParams, {""})
        \/ SsePoll(s)
    \/ AgentTraces(QueryRequests, QueryLimits, {""})

SpecStream == InitHttp /\ [][NextStream]_vars

(***************************************************************************)
(* Fan-out: the same requests with every SSE connection, without queries.  *)
(***************************************************************************)
NextFanout ==
    \/ \E p \in Procs : StreamRequest(p)
    \/ \E s \in Subs :
        \/ Subscribe(s, SubHeaders, SubParams, {""})
        \/ SsePoll(s)

SpecFanout == InitHttp /\ [][NextFanout]_vars

(***************************************************************************)
(* A lagging receiver: the server has answered LagBacklog ingest requests  *)
(* while the graph store was unreachable, and a connection opened before   *)
(* the first of them has not been polled since.  More ingest requests      *)
(* follow, connections open and read at any time.                          *)
(***************************************************************************)
LagBacklog == BroadcastCapacity - 1

\* The locals of the k-th of these ingest requests when it returns: the
\* version query failed (version 1), the transaction failed (no node ids).
LagLoc(k) ==
    [NoLoc EXCEPT !.op = "ingest", !.agent = "employee_1", !.topic = T_knowledge,
                  !.event_id = IngestEventId(k), !.decision_id = "t1", !.truth_id = "t1",
                  !.kind = "policy", !.content = "Y", !.summary = "Y",
                  !.routing = CHOOSE r \in RoutingChoices : TRUE,
                  !.version = 1]

\* The slow connection: opened by the top role before the first request.
SlowSub ==
    [on |-> TRUE, agent_id |-> {"employee_john"}, cred |-> "", since |-> 0,
     next |-> subscribe(0), acked |-> FALSE, out |-> <<>>, lost |-> {}]

InitLag ==
    /\ mode = "http"
    /\ pc = [p \in Procs |-> "idle"]
    /\ loc = [p \in Procs |-> NoLoc]
    /\ queue = <<>>
    /\ private_seq = 0
    /\ private_store = {}
    /\ org_truth = [t \in TruthIds |-> IF t = "t1" THEN [k \in 1..LagBacklog |-> "Y"] ELSE <<>>]
    /\ traces = <<>>
    /\ events_tx = [k \in 1..LagBacklog |-> TraceOf(LagLoc(k))]
    /\ graph = EmptyGraph
    /\ uuid_ctr = 0
    /\ cycles = LagBacklog
    /\ persistLog = {}
    /\ drained = <<>>
    /\ lastDrain = <<>>
    /\ lastOp = <<"none", "none">>
    /\ VisUnset
    /\ api_key = NoKey
    /\ AuxInit
    /\ subs \in {[s \in Subs |-> IF s = "s1" THEN c ELSE NoSub] : c \in {SlowSub, NoSub}}
    /\ qres = NoQuery

LagIngestBegin(p) ==
    /\ p = StreamProc
    /\ IngestStart(p, LagBacklog + MaxLagPublishes, HotTruthIds, HotContents)

NextLag ==
    \/ \E p \in Procs :
        \/ LagIngestBegin(p)
        \/ IngestNext(p, FALSE)
        \/ IngestPersist(p, FALSE)
        \/ IngestReturn(p)
    \/ \E s \in Subs :
        \/ Subscribe(s, {{}}, {{N_john}}, {""})
        \/ SsePoll(s)

SpecLag == InitLag /\ [][NextLag]_vars

(***************************************************************************)
(* The same server started with COS_API_KEY set: the requests that reach   *)
(* ask_and_persist and ingest_knowledge carried the key; SSE connections   *)
(* and trace queries come with any x-api-key header.                       *)
(***************************************************************************)
\* The configured key, and the x-api-key values a caller may present ("" is
\* what a missing header reads as).
ApiKey == "k1"
Credentials == {"", "bad", ApiKey}

InitAuth ==
    /\ mode = "http"
    /\ InitCommon
    /\ VisUnset
    /\ api_key = {ApiKey}
    /\ subs = [s \in Subs |-> NoSub]
    /\ qres = NoQuery

NextAuth ==
    \/ \E p \in Procs : StreamRequest(p)
    \/ \E s \in StreamSubs :
        \/ Subscribe(s, SubHeaders, SubParams, Credentials)
        \/ SsePoll(s)
    \/ AgentTraces(QueryRequests, QueryLimits, Credentials)

SpecAuth == InitAuth /\ [][NextAuth]_vars

(***************************************************************************)
(* Completion texts.  A text is a sequence of lexical items: the braces    *)
(* "{" and "}", "m" for the members of an object that follows the prompt   *)
(* (every key the stage reads, with a value of the right type), and "x"    *)
(* for any other character.  Of these texts serde_json::from_str accepts   *)
(* exactly the ones that are one object.                                   *)
(***************************************************************************)
Tokens == {"{", "}", "m", "x"}
CompletionTexts == UNION {[1..n -> Tokens] : n \in 0..MaxText}

NoteSecret == <<"s", "e", "c", "r", "e", "t">>

\* The object the members "m" of a Stage A completion stand for.
EmployeeMembers ==
    [event_type |-> "concern", topic |-> T_infra_outage, confidence |-> "0.9",
     private_note |-> NoteSecret]

EmptyObject == [k \in {} |-> ""]

\* serde_json::from_str::<Value>: the value, or nothing on a syntax error.
from_str(s, members) ==
    IF /\ Len(s) >= 2
       /\ s[1] = "{"
       /\ s[Len(s)] = "}"
       /\ \A i \in 2..(Len(s) - 1) : s[i] = "m"
    THEN {IF Len(s) > 2 THEN members ELSE EmptyObject}
    ELSE {}

\* str::find and str::rfind of one character: its first and last position.
find(s, c) == {i \in DOMAIN s : s[i] = c /\ \A j \in 1..(i - 1) : s[j] # c}
rfind(s, c) == {i \in DOMAIN s : s[i] = c /\ \A j \in (i + 1)..Len(s) : s[j] # c}

\* extract_first_json_object: s[start..=end] from the first '{' to the last '}'.
extract_first_json_object(s) ==
    {SubSeq(s, start, end) : <<start, end>> \in
        {se \in find(s, "{") \X rfind(s, "}") : se[2] > se[1]}}

\* The fallback value of Stage A on a completion that does not parse.
employee_fallback(out) ==
    [event_type |-> "update", topic |-> T_general, confidence |-> "0.5",
     private_note |-> out]

\* service.rs: from_str(out).or_else(extract, from_str).unwrap_or_else(fallback)
employee_parsed(out) ==
    LET whole == from_str(out, EmployeeMembers)
        inner == UNION {from_str(e, EmployeeMembers) : e \in extract_first_json_object(out)}
    IN  IF whole # {} THEN CHOOSE v \in whole : TRUE
        ELSE IF inner # {} THEN CHOOSE v \in inner : TRUE
        ELSE employee_fallback(out)

\* nodes.rs: from_str(out).unwrap_or_else(fallback)
employee_parsed_cli(out) ==
    LET whole == from_str(out, EmployeeMembers)
    IN  IF whole # {} THEN CHOOSE v \in whole : TRUE ELSE employee_fallback(out)

\* value.get(key).and_then(as_str / as_f64).unwrap_or(default)
get_or(value, key, default) == IF key \in DOMAIN value THEN value[key] ELSE default

EventTypes == {"decision_signal", "concern", "clarification"}

\* The fields Stage A reads from the parsed value, with their defaults.
employee_fields(value) ==
    [event_type |-> IF get_or(value, "event_type", "update") \in EventTypes
                    THEN value["event_type"] ELSE "update",
     topic |-> get_or(value, "topic", T_general),
     confidence |-> get_or(value, "confidence", "0.5"),
     private_note |-> get_or(value, "private_note", <<>>)]

(***************************************************************************)
(* POST /v1/ask from the request to Stage B: the Json extractor, the       *)
(* credential gate, the caller identity, the input, speech-to-text, the    *)
(* Stage A completion.  One task handles one request after another; the    *)
(* graph store answers.                                                    *)
(***************************************************************************)
T_hi == <<"h", "i">>
A_base64 == <<"a", "G", "k", "=">>
A_not_base64 == <<"!">>
Base64Alphabet == {"a", "G", "k", "="}

\* What a client may send: an x-api-key header, a body that deserializes as
\* AskRequest or does not, an x-employee-name header, and the body's
\* employee_name, agent_id, text and audio_base64 fields.
AskRequests ==
    [cred : Credentials, json : BOOLEAN, header : {{}, {N_Bob}},
     employee_name : {{}, {N_john}}, agent_id : {{}},
     text : {{}, {N_blank}, {T_hi}}, audio_base64 : {{}, {A_not_base64}, {A_base64}}]

\* base64::engine::general_purpose::STANDARD.decode(b64).is_ok()
decode_ok(b64) == \A i \in DOMAIN b64 : b64[i] \in Base64Alphabet

\* req.text / req.audio_base64 .map(trim).filter(non-empty)
non_empty(field) == {trim(v) : v \in field} \ {<<>>}

\* The answer ask gives before it awaits anything, status "none" when it
\* goes on: the Json<AskRequest> extractor runs before the handler body,
\* then auth_ok, resolve_employee_agent_id, the text and the audio.
ask_gate(req, key) ==
    IF ~req.json THEN Answer("4xx", "body does not deserialize")
    ELSE IF ~auth_ok(req.cred, key) THEN Answer("401", "unauthorized")
    ELSE IF resolve_employee_agent_id(req.header, req.employee_name, req.agent_id) = {}
        THEN Answer("400", "missing x-employee-name")
    ELSE IF non_empty(req.text) # {} THEN NoAsk
    ELSE IF non_empty(req.audio_base64) # {}
        THEN IF \E b64 \in non_empty(req.audio_base64) : ~decode_ok(b64)
             THEN Answer("400", "audio_base64 must be valid base64")
             ELSE NoAsk
    ELSE Answer("400", "provide either non-empty text or audio_base64")

InternalError(what) == Answer("500", what)

\* api::ask up to its first await.
AskArrive(p, requests) ==
    /\ mode = "http"
    /\ p = StreamProc
    /\ pc[p] = "idle"
    /\ cycles < MaxPublishes
    /\ \E req \in requests :
        LET answer == ask_gate(req, api_key)
            ids == resolve_employee_agent_id(req.header, req.employee_name, req.agent_id)
        IN  /\ ares' = [answer EXCEPT !.req = req]
            /\ IF answer = NoAsk
               THEN /\ pc' = [pc EXCEPT ![p] = IF non_empty(req.text) # {} THEN "stage_a"
                                               ELSE "stt"]
                    /\ loc' = [loc EXCEPT ![p] = [NoLoc EXCEPT !.op = "ask",
                                                  !.agent = CHOOSE id \in ids : TRUE]]
               ELSE UNCHANGED <<pc, loc>>
    /\ UNCHANGED <<mode, queue, private_seq, private_store, org_truth, traces, events_tx,
                   graph, uuid_ctr, cycles, persistLog, drained, lastDrain, lastOp,
                   visVars, streamVars, neo4j, lk, gsnap>>

\* An awaited collaborator call of ask answers with an error: ask answers 500.
AskError(p, at, what) ==
    /\ pc[p] = at
    /\ ares' = [InternalError(what) EXCEPT !.req = ares.req]
    /\ pc' = [pc EXCEPT ![p] = "idle"]
    /\ loc' = [loc EXCEPT ![p] = NoLoc]
    /\ UNCHANGED <<mode, queue, private_seq, private_store, org_truth, traces, events_tx,
                   graph, uuid_ctr, cycles, persistLog, drained, lastDrain, lastOp,
                   visVars, streamVars, neo4j, lk, gsnap>>

\* elevenlabs_stt_from_bytes(bytes, mime).await
AskStt(p, ok) ==
    IF ok
    THEN /\ pc[p] = "stt"
         /\ pc' = [pc EXCEPT ![p] = "stage_a"]
         /\ UNCHANGED <<mode, loc, queue, private_seq, private_store, org_truth, traces,
                        events_tx, graph, uuid_ctr, cycles, persistLog, drained, lastDrain,
                        lastOp, visVars, streamVars, auxVars>>
    ELSE AskError(p, "stt", "speech-to-text")

\* let employee_out = openai_chat(employee_system, &employee_user).await?;
StageACompletion(p, texts, ok) ==
    IF ok
    THEN /\ pc[p] = "stage_a"
         /\ \E employee_out \in texts : loc' = [loc EXCEPT ![p].out = employee_out]
         /\ pc' = [pc EXCEPT ![p] = "stage_a_lock"]
         /\ UNCHANGED <<mode, queue, private_seq, private_store, org_truth, traces,
                        events_tx, graph, uuid_ctr, cycles, persistLog, drained, lastDrain,
                        lastOp, visVars, streamVars, auxVars>>
    ELSE AskError(p, "stage_a", "completion")

\* The parse of employee_out and the Stage A critical section.
StageAEmit(p) ==
    AskFrom(p, "stage_a_lock", MaxPublishes, {loc[p].agent},
            {employee_fields(employee_parsed(loc[p].out))})

\* One completion of each kind: an object, an object inside prose, an empty
\* object, prose.
AskTexts == {<<"{", "m", "}">>, <<"x", "{", "m", "}", "x">>, <<"{", "}">>, <<"x">>}

InitAsk ==
    /\ mode = "http"
    /\ InitCommon
    /\ VisUnset
    /\ api_key \in {NoKey, {ApiKey}}
    /\ subs = [s \in Subs |-> NoSub]
    /\ qres = NoQuery

NextAsk ==
    \E p \in Procs :
        \/ AskArrive(p, AskRequests)
        \/ \E ok \in BOOLEAN : AskStt(p, ok)
        \/ \E ok \in BOOLEAN : StageACompletion(p, AskTexts, ok)
        \/ StageAEmit(p)
        \/ StageBFail(p)
        \/ StreamStageB(p)
        \/ NextDecision(p, TRUE)
        \/ PersistDecision(p, TRUE)
        \/ AddTrace(p)
        \/ AskSend(p)

SpecAsk == InitAsk /\ [][NextAsk]_vars

(***************************************************************************)
(* Stage A on any completion text: a task of either entry path has just    *)
(* received employee_out from the completion service.                      *)
(***************************************************************************)
\* EmployeeAgentNode::execute after openai_chat: parse, store_private, emit.
CliStageA(p) ==
    CliEmployeeWith(p, "cli_stage_a", {employee_fields(employee_parsed_cli(loc[p].out))})

InitStageA ==
    /\ mode \in {"http", "cli"}
    /\ AuxInit
    /\ \E employee_out \in CompletionTexts :
        /\ pc = [p \in Procs |-> IF p # StreamProc THEN "idle"
                                 ELSE IF mode = "http" THEN "stage_a_lock" ELSE "cli_stage_a"]
        /\ loc = [p \in Procs |->
                    IF p # StreamProc THEN NoLoc
                    ELSE IF mode = "http"
                    THEN [NoLoc EXCEPT !.op = "ask", !.agent = "employee_bob",
                                       !.out = employee_out]
                    ELSE [NoLoc EXCEPT !.out = employee_out]]
    /\ queue = <<>>
    /\ private_seq = 0
    /\ private_store = {}
    /\ org_truth = [t \in TruthIds |-> <<>>]
    /\ traces = <<>>
    /\ events_tx = <<>>
    /\ graph = EmptyGraph
    /\ uuid_ctr = 0
    /\ cycles = 0
    /\ persistLog = {}
    /\ drained = <<>>
    /\ lastDrain = <<>>
    /\ lastOp = <<"none", "none">>
    /\ VisUnset
    /\ StreamUnset

NextStageA ==
    \E p \in Procs :
        \/ StageAEmit(p)
        \/ CliStageA(p)
        \/ CliBrainDrain(p)
        \/ StageBFail(p)
        \/ StreamStageB(p)
        \/ NextDecision(p, TRUE)
        \/ PersistDecision(p, TRUE)
        \/ AddTrace(p)
        \/ AskSend(p)

SpecStageA == InitStageA /\ [][NextStageA]_vars

(***************************************************************************)
(* Stage B on any completion text, in both entry paths: Stage A answers as *)
(* prompted, the graph store answers, and the Stage B completion returns   *)
(* any text.                                                               *)
(***************************************************************************)
T_ok == <<"o", "k">>

\* The object the members "m" of a Stage B completion stand for.
OrgMembers ==
    [decision_id |-> "d1", decision |-> "approve", summary |-> "S", rationale |-> Rationale,
     evidence |-> <<"e1">>, assumptions |-> <<"a1">>, response_text |-> T_ok,
     confidence |-> "0.9", routing |-> NoRouting, org_updates |-> NoUpdates]

\* A fallback value that does not carry the completion text.
org_fallback_EmptyText(out) ==
    [decision_id |-> NoId, decision |-> "respond", summary |-> "", rationale |-> "",
     evidence |-> <<>>, assumptions |-> <<>>, response_text |-> <<>>,
     confidence |-> "0.5", routing |-> NoRouting, org_updates |-> NoUpdates]

\* The fallback value of Stage B on a completion that does not parse.
org_fallback(out) ==
    [decision_id |-> NoId, decision |-> "respond", summary |-> "", rationale |-> "",
     evidence |-> <<>>, assumptions |-> <<>>, response_text |-> out,
     confidence |-> "0.5", routing |-> NoRouting, org_updates |-> NoUpdates]

\* from_str(org_out).or_else(extract, from_str).unwrap_or_else(fallback)
org_parsed(out) ==
    LET whole == from_str(out, OrgMembers)
        inner == UNION {from_str(e, OrgMembers) : e \in extract_first_json_object(out)}
    IN  IF whole # {} THEN CHOOSE v \in whole : TRUE
        ELSE IF inner # {} THEN CHOOSE v \in inner : TRUE
        ELSE org_fallback(out)

\* The fields Stage B reads from the parsed value, with their defaults.
org_fields(value) ==
    [decision_id |-> get_or(value, "decision_id", NoId),
     decision |-> get_or(value, "decision", "respond"),
     summary |-> get_or(value, "summary", ""),
     evidence |-> get_or(value, "evidence", <<>>),
     assumptions |-> get_or(value, "assumptions", <<>>),
     response_text |-> get_or(value, "response_text", <<>>),
     routing |-> get_or(value, "routing", NoRouting),
     org_updates |-> get_or(value, "org_updates", NoUpdates)]

\* rag_search, the truth snapshot, then
\* let org_out = openai_chat(org_system, &org_user).await?;
StageBCompletion(p, texts) ==
    /\ pc[p] = "stage_b"
    /\ \E org_out \in texts : loc' = [loc EXCEPT ![p].out = org_out]
    /\ pc' = [pc EXCEPT ![p] = "stage_b_parse"]
    /\ UNCHANGED <<mode, queue, private_seq, private_store, org_truth, traces, events_tx,
                   graph, uuid_ctr, cycles, persistLog, drained, lastDrain, lastOp,
                   visVars, streamVars, auxVars>>

StageBParse(p) == StageBWith(p, "stage_b_parse", {org_fields(org_parsed(loc[p].out))})

NextStageB ==
    \E p \in Procs :
        \/ StreamAskBegin(p)
        \/ CliEmployee(p)
        \/ CliBrainDrain(p)
        \/ StageBFail(p)
        \/ StageBCompletion(p, CompletionTexts)
        \/ StageBParse(p)
        \/ NextDecision(p, TRUE)
        \/ PersistDecision(p, TRUE)
        \/ AddTrace(p)
        \/ AskSend(p)

SpecStageB == Init /\ [][NextStageB]_vars

(***************************************************************************)
(* Decision identity: concurrent ask requests (or the CLI flow) whose      *)
(* Stage B completion names a decision id or none, against a graph store   *)
(* whose queries and transactions may fail.                                *)
(***************************************************************************)
DecideAskBegin(p) == AskStart(p, MaxPublishes + 1, AskAgents, AskTopics)

NextDecide ==
    \E p \in Procs :
        \/ DecideAskBegin(p)
        \/ CliEmployee(p)
        \/ CliBrainDrain(p)
        \/ StageBFail(p)
        \/ StageBCompletion(p, AskTexts)
        \/ StageBParse(p)
        \/ \E query_ok \in BOOLEAN : NextDecision(p, query_ok)
        \/ \E txn_ok \in BOOLEAN : PersistDecision(p, txn_ok)
        \/ AddTrace(p)
        \/ AskSend(p)

SpecDecide == Init /\ [][NextDecide]_vars

(***************************************************************************)
(* org_updates: concurrent ask requests whose Stage B completion carries   *)
(* an org_updates object with string and non-string values, beside         *)
(* knowledge ingest requests for the same truth ids with any content, the  *)
(* empty one included (ingest validates truth_id, kind and routing only).  *)
(***************************************************************************)
\* org_updates objects of a completion: JSON values by truth id.
UpdateObjects ==
    {NoUpdates,
     [t \in {"t1"} |-> <<"string", "X">>],
     [t \in {"t1"} |-> <<"string", "">>],
     [t \in {"t1"} |-> <<"number", "1">>],
     [t \in {"t1", "t2"} |-> IF t = "t1" THEN <<"string", "X">> ELSE <<"string", "">>]}

\* let upd = v.as_str().unwrap_or("").to_string();
update_strings(obj) == [k \in DOMAIN obj |-> IF obj[k][1] = "string" THEN obj[k][2] ELSE ""]

UpdateContents == {"", "Y"}

UpdatesAskBegin(p) == AskStart(p, MaxPublishes, AskAgents, AskTopics)

UpdatesIngestBegin(p) == IngestStart(p, MaxPublishes, HotTruthIds, UpdateContents)

\* Retrieval, truth snapshot and the Stage B completion, whose parsed value
\* has an org_updates member.
UpdatesCompletion(p, objs) ==
    /\ pc[p] = "stage_b"
    /\ \E obj \in objs : loc' = [loc EXCEPT ![p].org_updates = obj]
    /\ pc' = [pc EXCEPT ![p] = "stage_b_updates"]
    /\ UNCHANGED <<mode, queue, private_seq, private_store, org_truth, traces, events_tx,
                   graph, uuid_ctr, cycles, persistLog, drained, lastDrain, lastOp,
                   visVars, streamVars, auxVars>>

\* The org_updates loop under the lock, then the decision id.
UpdatesApply(p) ==
    StageBWith(p, "stage_b_updates",
               OrgAnswers({NoId}, {NoRouting}, {update_strings(loc[p].org_updates)}))

NextUpdates ==
    \E p \in Procs :
        \/ UpdatesAskBegin(p)
        \/ StageBFail(p)
        \/ UpdatesCompletion(p, UpdateObjects)
        \/ UpdatesApply(p)
        \/ NextDecision(p, TRUE)
        \/ PersistDecision(p, TRUE)
        \/ NextTruth(p)
        \/ LatestTruth(p)
        \/ PersistTruth(p)
        \/ AddTrace(p)
        \/ AskSend(p)
        \/ UpdatesIngestBegin(p)
        \/ IngestNext(p, TRUE)
        \/ IngestPersist(p, TRUE)
        \/ IngestReturn(p)

SpecUpdates == InitHttp /\ [][NextUpdates]_vars

(***************************************************************************)
(* The APP_STATE lock.  Each handler is the list of its lock acquisitions, *)
(* guard drops and awaited network calls in program order; a task is       *)
(* inside a network call between the step that issues it and the step at   *)
(* which its await completes.  lk.holder is the task holding the mutex,    *)
(* lk.op[p] the handler task p runs and lk.at[p] the step it is about to   *)
(* take.                                                                   *)
(***************************************************************************)
Lock == [kind |-> "lock", what |-> "state"]

Unlock == [kind |-> "unlock", what |-> "state"]

\* A network call of one of the three kinds, and the completion of its await.
Net(what) == <<[kind |-> "call", what |-> what], [kind |-> "reply", what |-> what]>>

\* service::ask_and_persist
AskSteps ==
    <<Lock, Unlock>>                                 \* neo4j handle, conversation cache
        \o Net("graph")                              \* load_recent_conversation_turns
        \o Net("completion")                         \* Stage A openai_chat
        \o <<Lock, Unlock>>                          \* note, emit, drain; drop(state)
        \o <<Lock>> \o Net("retrieval") \o <<Unlock>>    \* state.rag_search(..).await under the guard
        \o <<Lock, Unlock>>                          \* org_truth snapshot
        \o Net("completion")                         \* Stage B openai_chat
        \o <<Lock, Unlock>>                          \* org_updates loop
        \o Net("graph")                              \* next_decision_version
        \o Net("graph")                              \* persist_decision_version
        \o Net("graph")                              \* next_truth_version
        \o <<Lock, Unlock>>                          \* latest_truth
        \o Net("graph")                              \* persist_truth_version
        \o <<Lock, Unlock>>                          \* add_trace
        \o Net("graph")                              \* persist_conversation_turn
        \o <<Lock, Unlock>>                          \* conversation cache

\* service::ingest_knowledge with add_to_rag
IngestSteps ==
    <<Lock, Unlock>>                                 \* update_org_truth, rag and neo4j handles
        \o Net("retrieval")                          \* rag.process_document
        \o Net("graph")                              \* next_truth_version
        \o Net("graph")                              \* persist_truth_version

\* api::list_traces, api::agent_traces: the guard lives to the end of the handler
TraceQuerySteps == <<Lock, Unlock>>

\* api::graph_snapshot, agent_graph_snapshot, current_decisions, current_truth
GraphQuerySteps ==
    <<Lock, Unlock>>                                 \* neo4j handle; drop(state)
        \o Net("graph")                              \* graph.execute

LockOps == {"ask", "ingest", "traces", "graph"}

StepsOf(op) ==
    CASE op = "ask" -> AskSteps
      [] op = "ingest" -> IngestSteps
      [] op = "traces" -> TraceQuerySteps
      [] op = "graph" -> GraphQuerySteps
      [] OTHER -> <<>>

\* The step task p is about to take, none at the end of its handler.
StepAt(p) ==
    IF lk.at[p] \in DOMAIN StepsOf(lk.op[p])
    THEN StepsOf(lk.op[p])[lk.at[p]] ELSE [kind |-> "none", what |-> "none"]

Advance(p) == [lk EXCEPT !.at[p] = lk.at[p] + 1]

LockUnchanged ==
    UNCHANGED <<mode, pc, loc, queue, private_seq, private_store, org_truth, traces,
                events_tx, graph, uuid_ctr, cycles, persistLog, drained, lastDrain,
                lastOp, visVars, streamVars, api_key, qres, neo4j, ares, gsnap>>

\* A request arrives and its handler starts.
LockBegin(p, ops) ==
    /\ lk.op[p] = "none"
    /\ \E op \in ops : lk' = [lk EXCEPT !.op[p] = op, !.at[p] = 1]
    /\ LockUnchanged

\* APP_STATE.lock().await returns the guard once the mutex is free.
LockAcquire(p) ==
    /\ StepAt(p).kind = "lock"
    /\ lk.holder = "none"
    /\ lk' = [Advance(p) EXCEPT !.holder = p]
    /\ LockUnchanged

\* The guard is dropped (drop(state) or the end of its block).
LockRelease(p) ==
    /\ StepAt(p).kind = "unlock"
    /\ lk' = [Advance(p) EXCEPT !.holder = "none"]
    /\ LockUnchanged

\* The task issues a network call and suspends at its await.
NetCall(p) ==
    /\ StepAt(p).kind = "call"
    /\ lk' = Advance(p)
    /\ LockUnchanged

\* The awaited call completes.
NetReply(p) ==
    /\ StepAt(p).kind = "reply"
    /\ lk' = Advance(p)
    /\ LockUnchanged

\* The handler returns.
LockReturn(p) ==
    /\ lk.op[p] # "none"
    /\ StepAt(p).kind = "none"
    /\ lk' = [lk EXCEPT !.op[p] = "none", !.at[p] = 0]
    /\ LockUnchanged

NextLock ==
    \E p \in Procs :
        \/ LockBegin(p, LockOps)
        \/ LockAcquire(p)
        \/ LockRelease(p)
        \/ NetCall(p)
        \/ NetReply(p)
        \/ LockReturn(p)

SpecLock == InitHttp /\ [][NextLock]_vars

(***************************************************************************)
(* The two trace queries, GET /v1/traces and GET /v1/agents/{id}/traces,   *)
(* with an API key configured, from any caller (a good or a missing        *)
(* credential, any x-employee-name header, own or another agent's view)    *)
(* while ask and ingest requests fill the trace log.                       *)
(* A response of the all-traces query has agent_id NoId in qres.           *)
(***************************************************************************)
\* Headers and requested agent ids of a trace query.
QueryHeaders == {{}, {N_Bob}, {N_john}}

QueryAgentIds == {"employee_bob", "employee_john"}

QueryCredentials == {"", ApiKey}

AnyQueryRequests == {<<header, agent_id>> : header \in QueryHeaders, agent_id \in QueryAgentIds}

\* A gate of list_traces without the role test.
list_traces_gate_AnyIdentity(provided, key, caller) ==
    IF ~auth_ok(provided, key) THEN "401"
    ELSE IF caller = {} THEN "400"
    ELSE "200"

\* list_traces before the lock: credential, caller identity, Ceo only.
list_traces_gate(provided, key, caller) ==
    IF ~auth_ok(provided, key) THEN "401"
    ELSE IF caller = {} THEN "400"
    ELSE IF \E c \in caller : employee_role_from_agent_id(c) # "Ceo" THEN "403"
    ELSE "200"

\* traces.reverse(); traces.truncate(limit);
reverse_truncate(ts, limit) ==
    [k \in 1..(IF Len(ts) <= limit THEN Len(ts) ELSE limit) |-> ts[Len(ts) - k + 1]]

\* list_traces: the gate, then a copy of the log, newest first.
ListTraces(headers, limits, creds) ==
    /\ \E header \in headers, limit \in limits, provided \in creds :
        LET caller == resolve_employee_agent_id(header, {}, {})
            status == list_traces_gate(provided, api_key, caller)
        IN  qres' = [status |-> status, caller |-> caller, agent_id |-> NoId,
                     limit |-> limit, log_len |-> Len(traces),
                     traces |-> IF status = "200" THEN reverse_truncate(traces, limit)
                                ELSE <<>>]
    /\ UNCHANGED <<mode, pc, loc, queue, private_seq, private_store, org_truth, traces,
                   events_tx, graph, uuid_ctr, cycles, persistLog, drained, lastDrain,
                   lastOp, visVars, api_key, subs, auxVars>>

NextQuery ==
    \/ \E p \in Procs : StreamRequest(p)
    \/ AgentTraces(AnyQueryRequests, QueryLimits, QueryCredentials)
    \/ ListTraces(QueryHeaders, QueryLimits, QueryCredentials)

SpecQuery == InitAuth /\ [][NextQuery]_vars

(***************************************************************************)
(* Pagination of the two trace queries: callers that pass the gates ask    *)
(* with small limits, zero included (Pagination.limit is an Option<usize>),*)
(* while ask and ingest requests fill the trace log.                       *)
(***************************************************************************)
PageRequests == {<<{N_john}, "employee_john">>, <<{N_Bob}, "employee_bob">>}

PageLimits == {0, 1, 2}

NextPage ==
    \/ \E p \in Procs : StreamRequest(p)
    \/ AgentTraces(PageRequests, PageLimits, {""})
    \/ ListTraces({{N_john}}, PageLimits, {""})

SpecPage == InitHttp /\ [][NextPage]_vars

(***************************************************************************)
(* The trace log under every operation that touches it: ask and ingest     *)
(* requests, both trace queries and an SSE connection in the HTTP server,  *)
(* the employee and brain nodes in the CLI flow.                           *)
(***************************************************************************)
NextLog ==
    \/ \E p \in Procs :
        \/ StreamRequest(p)
        \/ CliEmployee(p)
        \/ CliBrainDrain(p)
    \/ \E s \in StreamSubs :
        \/ mode = "http" /\ Subscribe(s, {{N_Bob}}, {{}}, {""})
        \/ SsePoll(s)
    \/ mode = "http" /\ AgentTraces(QueryRequests, QueryLimits, {""})
    \/ mode = "http" /\ ListTraces({{N_john}}, QueryLimits, {""})

SpecLog == Init /\ [][NextLog]_vars

(***************************************************************************)
(* Private notes: concurrent ask requests of two employees, or the CLI     *)
(* flow, each Stage A storing the note of its request.                     *)
(***************************************************************************)
NoteAgents == {"employee_bob", "employee_sarah"}

NotesAskBegin(p) == AskStart(p, MaxPublishes + 1, NoteAgents, AskTopics)

NextNotes ==
    \E p \in Procs :
        \/ NotesAskBegin(p)
        \/ CliEmployee(p)
        \/ CliBrainDrain(p)
        \/ StageBFail(p)
        \/ StreamStageB(p)
        \/ NextDecision(p, TRUE)
        \/ PersistDecision(p, TRUE)
        \/ AddTrace(p)
        \/ AskSend(p)

SpecNotes == Init /\ [][NextNotes]_vars

(***************************************************************************)
(* GET /v1/agents/{agent_id}/graph/snapshot while ask and ingest requests  *)
(* persist decision and truth versions under any routing.  The model's     *)
(* graph holds the object and version nodes with their CURRENT and         *)
(* SUPERSEDES relationships; Employee nodes are not part of it.            *)
(***************************************************************************)
\* Routing objects of a Stage B completion: no entry, or an entry for the
\* Engineer with any JSON value.
SnapRoutings == {NoRouting} \cup {routing_map(obj) : obj \in [{"employee_bob"} -> JsonValues]}

SnapAgents == {"employee_bob", "employee_sarah"}

\* MATCH (n) WHERE (n:DecisionVersion OR n:TruthVersion)
\*   AND $agent_id IN coalesce(n.routing_agents, [])
routed_versions(g, agent_id) == {v \in g.versions : agent_id \in v.routing_agents}

\* OPTIONAL MATCH (a)-[r]->(b) WHERE a = v OR b = v, for each v of versions.
attached_edges(g, versions) ==
    {e \in {<<"CURRENT", c[1], c[2]>> : c \in g.current}
            \cup {<<"SUPERSEDES", c[1], c[2]>> : c \in g.supersedes} :
        \E v \in versions : v.n \in {e[2], e[3]}}

\* agent_graph_snapshot: credential, graph handle, the query, the rows'
\* end nodes and relationships.
AgentGraphSnapshot(agent_ids, creds, query_ok) ==
    /\ mode = "http"
    /\ \E agent_id \in agent_ids, provided \in creds :
        LET versions == routed_versions(graph, agent_id)
            edges == attached_edges(graph, versions)
            status == IF ~auth_ok(provided, api_key) THEN "401"
                      ELSE IF ~neo4j \/ ~query_ok THEN "500"
                      ELSE "200"
        IN  gsnap' = IF status = "200"
                     THEN [status |-> status, agent_id |-> agent_id, versions |-> versions,
                           nodes |-> {e[2] : e \in edges} \cup {e[3] : e \in edges},
                           edges |-> edges]
                     ELSE [NoSnapshot EXCEPT !.status = status, !.agent_id = agent_id]
    /\ UNCHANGED <<mode, pc, loc, queue, private_seq, private_store, org_truth, traces,
                   events_tx, graph, uuid_ctr, cycles, persistLog, drained, lastDrain,
                   lastOp, visVars, streamVars, neo4j, ares, lk>>

SnapStageB(p) == StageBAnswer(p, {NoId} \cup SuppliedDecisionIds, SnapRoutings, {NoUpdates})

NextSnap ==
    \/ \E p \in Procs :
        \/ StreamAskBegin(p)
        \/ StageBFail(p)
        \/ SnapStageB(p)
        \/ NextDecision(p, TRUE)
        \/ PersistDecision(p, TRUE)
        \/ AddTrace(p)
        \/ AskSend(p)
        \/ StreamIngestBegin(p)
        \/ IngestNext(p, TRUE)
        \/ IngestPersist(p, TRUE)
        \/ IngestReturn(p)
    \/ \E query_ok \in BOOLEAN : AgentGraphSnapshot(SnapAgents, {""}, query_ok)

SpecSnap == InitHttp /\ [][NextSnap]_vars

(***************************************************************************)
(* Fan-out of concurrent ask requests: two request tasks, each appending   *)
(* its trace under the lock and publishing it once ask_and_persist has     *)
(* returned, and an SSE connection of the top role reading the channel.    *)
(***************************************************************************)
OrderAskBegin(p) == AskStart(p, MaxPublishes, {"employee_bob"}, {T_infra_outage})

NextOrder ==
    \/ \E p \in Procs :
        \/ OrderAskBegin(p)
        \/ StageBFail(p)
        \/ StreamStageB(p)
        \/ NextDecision(p, TRUE)
        \/ PersistDecision(p, TRUE)
        \/ AddTrace(p)
        \/ AskSend(p)
    \/ \E s \in StreamSubs :
        \/ Subscribe(s, {{N_john}}, {{}}, {""})
        \/ SsePoll(s)

SpecOrder == InitHttp /\ [][NextOrder]_vars

(***************************************************************************)
(* Levels handed to a viewer: ask requests whose Stage B routing gives the *)
(* Engineer any JSON value (a level, another string, a number) or no       *)
(* entry, read by the Engineer through the per-agent trace query and       *)
(* through an SSE connection.                                              *)
(***************************************************************************)
LevelsStageB(p) == StageBAnswer(p, {NoId}, SnapRoutings, {NoUpdates})

NextLevels ==
    \/ \E p \in Procs :
        \/ StreamAskBegin(p)
        \/ StageBFail(p)
        \/ LevelsStageB(p)
        \/ NextDecision(p, TRUE)
        \/ PersistDecision(p, TRUE)
        \/ AddTrace(p)
        \/ AskSend(p)
    \/ \E s \in StreamSubs :
        \/ Subscribe(s, {{N_Bob}}, {{}}, {""})
        \/ SsePoll(s)
    \/ AgentTraces({<<{N_Bob}, "employee_bob">>}, QueryLimits, {""})

SpecLevels == InitHttp /\ [][NextLevels]_vars

(***************************************************************************)
(* A caller whose name is none of the three the role lookup knows: it      *)
(* sends the all-traces query, the per-agent query for its own id and for  *)
(* another agent's id, and holds an SSE connection, while ask requests     *)
(* fill the log with traces that give it a routing entry or give it none.  *)
(***************************************************************************)
N_zed == <<"Z", "e", "d">>

UnknownAgent == "employee_zed"

UnknownRequests == {<<{N_zed}, UnknownAgent>>, <<{N_zed}, "employee_bob">>}

UnknownRoutings ==
    {NoRouting, routing_map([a \in {UnknownAgent} |-> <<"string", "full">>])}

UnknownStageB(p) == StageBAnswer(p, {NoId}, UnknownRoutings, {NoUpdates})

NextUnknown ==
    \/ \E p \in Procs :
        \/ StreamAskBegin(p)
        \/ StageBFail(p)
        \/ UnknownStageB(p)
        \/ NextDecision(p, TRUE)
        \/ PersistDecision(p, TRUE)
        \/ AddTrace(p)
        \/ AskSend(p)
    \/ \E s \in StreamSubs :
        \/ Subscribe(s, {{N_zed}}, {{}}, {""})
        \/ SsePoll(s)
    \/ AgentTraces(UnknownRequests, QueryLimits, {""})
    \/ ListTraces({{N_zed}}, QueryLimits, {""})

SpecUnknown == InitHttp /\ [][NextUnknown]_vars

(***************************************************************************)
(* Properties.  History operators read the committed persists back from     *)
(* persistLog, in commit order.                                            *)
(***************************************************************************)
\* The version nodes committed for an object, oldest first.
PersistsOf(label, id) ==
    LET S == {e \in persistLog : e.label = label /\ e.id = id}
    IN  [i \in 1..Cardinality(S) |-> CHOOSE e \in S : e.seq = i]

\* Every object id a cycle can have named so far.
DecisionIdsSeen == LlmDecisionIds \cup {MintedDecisionId(Uuid(k)) : k \in 1..uuid_ctr}
ObjectKeys == {<<"Decision", id>> : id \in DecisionIdsSeen}
                \cup {<<"TruthObject", id>> : id \in TruthIds}

VersionNode(n) == CHOOSE v \in graph.versions : v.n = n

\* The object and the version a task holds between a next_version query
\* that succeeded and the persist paired with it; <<>> when it holds none.
HeldVersion(p) ==
    IF ~loc[p].q_ok THEN <<>>
    ELSE CASE pc[p] = "persist_decision" -> <<"Decision", loc[p].decision_id, loc[p].version>>
           [] pc[p] \in {"latest_truth", "persist_truth"} ->
                  <<"TruthObject", loc[p].truth_id, loc[p].v>>
           [] pc[p] = "ingest_persist" -> <<"TruthObject", loc[p].truth_id, loc[p].version>>
           [] OTHER -> <<>>

\* C1: two cycles that run concurrently and touch the same object id never
\* hold the same next_version value: whenever two tasks are both between
\* their next_version query and the paired persist for the same Decision or
\* TruthObject, the versions they computed differ.
C1_NextVersionsDiffer ==
    \A p \in Procs, q \in Procs :
        (p # q /\ HeldVersion(p) # <<>> /\ HeldVersion(q) # <<>>
              /\ HeldVersion(p)[1] = HeldVersion(q)[1]
              /\ HeldVersion(p)[2] = HeldVersion(q)[2])
            => HeldVersion(p)[3] # HeldVersion(q)[3]

\* C2: in every state, every Decision and TruthObject in the store has
\* exactly one CURRENT relationship, and its target is the version node
\* written by the most recent committed persist on that object.
C2_ExactlyOneCurrent ==
    \A o \in graph.objects :
        LET h == PersistsOf(o.label, o.id)
        IN  /\ Cardinality(MatchCurrent(graph, o.n)) = 1
            /\ h # <<>>
            /\ MatchCurrent(graph, o.n) = {<<o.n, h[Len(h)].node>>}
            /\ Cardinality(CurrentOf(graph, o.label, o.id)) = 1

\* A Decision was persisted twice and its only current version is the second.
C2_Witness ==
    \E o \in graph.objects :
        /\ o.label = "Decision"
        /\ Len(PersistsOf(o.label, o.id)) = 2
        /\ \A v \in CurrentOf(graph, o.label, o.id) : v.version = 2
        /\ CurrentOf(graph, o.label, o.id) # {}

\* C3: for every object id, the version numbers stored in its chain are
\* exactly 1..n with no duplicate, and a version created later carries a
\* larger number; this holds in every reachable state, including after
\* cycles whose next_version query failed and defaulted to 1.
C3_VersionsGapFree ==
    \A key \in ObjectKeys :
        LET vs == VersionsOf(graph, key[1], key[2])
        IN  /\ {v.version : v \in vs} = 1..Cardinality(vs)
            /\ \A a \in vs, b \in vs : a.n[3] < b.n[3] => a.version < b.version

\* Two cycles both reported version 1 for the same decision (the second
\* one's query failed and its persist was rejected): the chain holds {1},
\* and a truth chain written by both cycles holds {1, 2}.
C3_Witness ==
    /\ Len(traces) = 2
    /\ traces[1].decision_id = traces[2].decision_id
    /\ traces[1].version = 1 /\ traces[2].version = 1
    /\ {v.version : v \in VersionsOf(graph, "Decision", traces[1].decision_id)} = {1}
    /\ \E t \in TruthIds : {v.version : v \in VersionsOf(graph, "TruthObject", t)} = {1, 2}

\* C4: for every object id, after N committed persist_version calls on it
\* (N >= 0), next_version returns N + 1; it returns 1 when the object does
\* not exist yet.
C4_NextVersionIsCountPlusOne ==
    /\ \A id \in DecisionIdsSeen :
        next_decision_version(graph, id) = Len(PersistsOf("Decision", id)) + 1
    /\ \A id \in TruthIds :
        next_truth_version(graph, id) = Len(PersistsOf("TruthObject", id)) + 1

\* A truth object with two committed persists (next version 3) beside a
\* truth object that does not exist yet (next version 1).
C4_Witness ==
    \E a \in TruthIds, b \in TruthIds :
        /\ Len(PersistsOf("TruthObject", a)) = 2
        /\ next_truth_version(graph, a) = 3
        /\ ObjectOf(graph, "TruthObject", b) = {}
        /\ next_truth_version(graph, b) = 1

\* The SUPERSEDES edges the committed history of an object calls for: one
\* from every version node to the node that was current before it.
HistoryEdges(label, id) ==
    LET h == PersistsOf(label, id)
    IN  {<<h[i + 1].node, h[i].node>> : i \in 1..(Len(h) - 1)}

C6_KindSetOnce ==
    \A o \in graph.objects :
        o.label = "TruthObject" =>
            LET h == PersistsOf("TruthObject", o.id)
            IN  h # <<>> /\ o.kind = h[1].kind

\* An ingest created the object with its kind and a later ask-cycle
\* org_update, passing "org_truth", was committed on the same id.
C6_Witness ==
    \E o \in graph.objects :
        /\ o.label = "TruthObject"
        /\ o.kind \in IngestKinds
        /\ LET h == PersistsOf("TruthObject", o.id)
           IN  Len(h) = 2 /\ h[1].kind \in IngestKinds /\ h[2].kind = "org_truth"

\* Number of ingest requests for a truth id that have returned.
IngestsReturned(truth_id) ==
    Cardinality({i \in DOMAIN events_tx : events_tx[i].decision_id = truth_id})

\* C7: with the graph store available and ingests issued one after another,
\* the k-th ingest of a truth id returns a trace with version k and summary
\* equal to the content; version k exists with that content, is the only
\* CURRENT version, is named in graph_updates, and for k > 1 is linked by
\* SUPERSEDES to version k - 1.
C7_KthIngest ==
    \A p \in Procs :
        pc[p] = "ingest_return" =>
            LET l == loc[p]
                k == IngestsReturned(l.truth_id) + 1
                t == TraceOf(l)
                cur == CurrentOf(graph, "TruthObject", l.truth_id)
            IN  /\ t.version = k
                /\ t.summary = l.content
                /\ t.decision_id = l.truth_id
                /\ Cardinality(cur) = 1
                /\ \A v \in cur :
                    /\ v.version = k
                    /\ v.summary = l.content
                    /\ v.vid = version_id(l.truth_id, k)
                    /\ Len(t.graph_updates) = 2 /\ t.graph_updates[2] = v.n
                    /\ k > 1 =>
                        \E w \in VersionsOf(graph, "TruthObject", l.truth_id) :
                            /\ w.version = k - 1
                            /\ <<v.n, w.n>> \in graph.supersedes
                            /\ \A e \in graph.supersedes : e[1] = v.n => e[2] = w.n
                    /\ k = 1 => \A e \in graph.supersedes : e[1] # v.n
                /\ {v.version : v \in VersionsOf(graph, "TruthObject", l.truth_id)} = 1..k

\* The second ingest of a truth id, with content "Y" after "X", is about to
\* return.
C7_Witness ==
    \E p \in Procs :
        /\ pc[p] = "ingest_return"
        /\ loc[p].content = "Y"
        /\ loc[p].version = 2
        /\ IngestsReturned(loc[p].truth_id) = 1
        /\ \E i \in DOMAIN events_tx :
            events_tx[i].decision_id = loc[p].truth_id /\ events_tx[i].summary = "X"

\* C8: the EventBus is FIFO.  emit appends to the tail; drain returns all
\* queued events in emission order and leaves the bus empty, so is_empty
\* holds right after; a drain directly after a drain returns the empty
\* sequence.
C8_EventBusFifo ==
    LET all == drained \o queue
    IN  /\ Len(all) = uuid_ctr
        /\ \A i \in DOMAIN all : all[i].event_id = Uuid(i)
        /\ lastOp[2] = "emit" =>
              /\ ~is_empty(queue)
              /\ queue[Len(queue)].event_id = Uuid(uuid_ctr)
        /\ lastOp[2] = "drain" =>
              /\ is_empty(queue)
              /\ Len(lastDrain) <= Len(drained)
              /\ lastDrain = SubSeq(drained, Len(drained) - Len(lastDrain) + 1, Len(drained))
        /\ lastOp = <<"emit", "drain">> => lastDrain # <<>>
        /\ lastOp = <<"drain", "drain">> => lastDrain = <<>>

\* emit(e1), emit(e2), drain() returned both, and a following drain()
\* returned nothing.
C8_Witness ==
    /\ lastOp = <<"drain", "drain">>
    /\ Len(drained) = 2
    /\ drained[1].event_id = Uuid(1)
    /\ drained[2].event_id = Uuid(2)
    /\ lastDrain = <<>>
    /\ is_empty(queue)

\* C9: through the APP_STATE lock, every emitted event is returned by
\* exactly one drain, whole: the events returned by all drains followed by
\* the events still queued are the emitted events, each once and in emit
\* order, each with its emitter and its private reference; nothing stays
\* queued after a drain; the batches held by running cycles are disjoint.
C9_EveryEventDrainedOnce ==
    LET all == drained \o queue
    IN  /\ Len(all) = private_seq
        /\ \A i \in DOMAIN all :
            /\ all[i].references = <<<<all[i].emitted_by, i>>>>
            /\ <<all[i].emitted_by, <<all[i].emitted_by, i>>, "note">> \in private_store
            /\ \A j \in DOMAIN all : all[i].event_id = all[j].event_id => i = j
        /\ lastOp[2] = "drain" => queue = <<>>
        /\ \A p \in Procs, q \in Procs :
            p # q => Range(loc[p].events) \cap Range(loc[q].events) = {}
        /\ \A p \in Procs : Range(loc[p].events) \subseteq Range(drained)

\* Two concurrent ask cycles each hold the one event they emitted, or the
\* CLI brain drained the event the employee node emitted.
C9_Witness ==
    \/ /\ \A p \in Procs : pc[p] = "stage_b" /\ Len(loc[p].events) = 1
       /\ Len(drained) = 2
       /\ queue = <<>>
    \/ /\ mode = "cli"
       /\ lastOp = <<"emit", "drain">>
       /\ Len(lastDrain) = 1
       /\ Len(drained) = 2

\* C10: when trace.routing has an entry for the viewer, visibility
\* resolution returns that entry verbatim, whatever the viewer's role and
\* the trace's topic; the role default is used only without an entry.
C10_ExplicitRoutingWins ==
    visLevel # "unset" =>
        /\ visViewer \in DOMAIN visTrace.routing => visLevel = visTrace.routing[visViewer]
        /\ visViewer \notin DOMAIN visTrace.routing =>
              visLevel = role_default_visibility(employee_role_from_agent_id(visViewer),
                                                 visTrace.topic)

\* The top role is routed "none" explicitly and resolves to "none".
C10_Witness ==
    /\ visViewer = "employee_john"
    /\ visViewer \in DOMAIN visTrace.routing
    /\ visTrace.routing[visViewer] = "none"
    /\ visLevel = "none"

\* C11: without a routing entry for the viewer the role default decides: the
\* top role resolves to "full" for every topic; Hr and Engineer (which is
\* also the role of every unknown agent id) resolve to "summary" exactly when
\* the lower-cased topic contains a keyword of the role's set, else to
\* "none".  Engineer and "company picnic" is "none", "infra outage" "summary".
C11_RoleDefault ==
    (visLevel # "unset" /\ visViewer \notin DOMAIN visTrace.routing) =>
        LET folded == to_lowercase(visTrace.topic)
            hit(K) == \E k \in K : \E i \in 1..Len(folded) : \E j \in i..Len(folded) :
                          SubSeq(folded, i, j) = k
        IN  /\ visViewer = "employee_john" => visLevel = "full"
            /\ visViewer = "employee_sarah" =>
                   visLevel = IF hit(HrKeywords) THEN "summary" ELSE "none"
            /\ visViewer \notin {"employee_john", "employee_sarah"} =>
                   visLevel = IF hit(EngineerKeywords) THEN "summary" ELSE "none"
            /\ (visViewer = "employee_bob" /\ visTrace.topic = T_company_picnic) =>
                   visLevel = "none"
            /\ (visViewer = "employee_bob" /\ visTrace.topic = T_infra_outage) =>
                   visLevel = "summary"

\* Hr, not routed, sees a summary of the topic "Hiring plan".
C11_Witness ==
    /\ visViewer = "employee_sarah"
    /\ visViewer \notin DOMAIN visTrace.routing
    /\ visTrace.topic = T_Hiring_plan
    /\ visLevel = "summary"

\* C12: for every trace ask or ingest can produce and every viewer, the
\* resolved level is one of "full", "summary", "none".
C12_LevelInRange == visLevel # "unset" => visLevel \in Levels

\* The trace items an SSE connection was handed, as <<position in the
\* channel, trace handed over>>, and the connection's viewer identity.
Delivered(s) ==
    UNION {{<<subs[s].out[k].seq, d>> : d \in subs[s].out[k].data} : k \in DOMAIN subs[s].out}

\* The fields of a trace other than evidence and assumptions.
KeptFields == {"decision_id", "topic", "summary", "version", "rationale", "trigger_events",
               "agents_involved", "graph_updates", "routing"}

\* handed is what level makes of orig.
AppliedAs(handed, orig, level) ==
    /\ level = "summary" =>
          /\ handed.evidence = <<>>
          /\ handed.assumptions = <<>>
          /\ \A f \in KeptFields : handed[f] = orig[f]
    /\ level = "full" => handed = orig

\* C13: a trace handed over at level "summary" is a copy of the original
\* with evidence and assumptions empty and every other field equal; at level
\* "full" it is the original.  This holds for every trace an SSE connection
\* was handed and for every trace of a per-agent query response.
C13_RedactionFrame ==
    /\ \A s \in Subs : \A x \in Delivered(s) : \A aid \in subs[s].agent_id :
          AppliedAs(x[2], events_tx[x[1]], visibility_for_agent(events_tx[x[1]], aid))
    /\ \A k \in DOMAIN qres.traces :
          /\ \E i \in DOMAIN traces : traces[i].trigger_events = qres.traces[k].trigger_events
          /\ \A i \in DOMAIN traces :
                traces[i].trigger_events = qres.traces[k].trigger_events =>
                    AppliedAs(qres.traces[k], traces[i],
                              visibility_for_agent(traces[i], qres.agent_id))

\* An Engineer connection and an Engineer's query response both hold the
\* summary copy of a trace that has evidence and assumptions.
C13_Witness ==
    /\ \E s \in Subs : \E x \in Delivered(s) :
          /\ subs[s].agent_id = {"employee_bob"}
          /\ visibility_for_agent(events_tx[x[1]], "employee_bob") = "summary"
          /\ events_tx[x[1]].evidence # <<>>
          /\ events_tx[x[1]].assumptions # <<>>
          /\ x[2].evidence = <<>>
    /\ qres.status = "200"
    /\ qres.agent_id = "employee_bob"
    /\ \E k \in DOMAIN qres.traces : \E i \in DOMAIN traces :
          /\ traces[i].trigger_events = qres.traces[k].trigger_events
          /\ traces[i].evidence # <<>>
          /\ qres.traces[k].evidence = <<>>
          /\ qres.traces[k].rationale = traces[i].rationale

\* C14: a trace whose level for a viewer is "none" is in no response of the
\* per-agent query for that viewer and is never handed to an SSE connection
\* of that viewer, in any form: nothing handed over stems from its request.
C14_NoneNeverHandedOver ==
    /\ \A s \in Subs : \A aid \in subs[s].agent_id : \A i \in DOMAIN events_tx :
          visibility_for_agent(events_tx[i], aid) = "none" =>
              \A x \in Delivered(s) :
                  x[1] # i /\ x[2].trigger_events # events_tx[i].trigger_events
    /\ \A i \in DOMAIN traces :
          visibility_for_agent(traces[i], qres.agent_id) = "none" =>
              \A k \in DOMAIN qres.traces :
                  qres.traces[k].trigger_events # traces[i].trigger_events

\* An Engineer connection has read past a trace hidden from the Engineer and
\* was handed nothing but the acknowledgment, and the Engineer's query over a
\* log holding such a trace answered without it.
C14_Witness ==
    /\ \E s \in Subs :
          /\ subs[s].agent_id = {"employee_bob"}
          /\ \E i \in (subs[s].since + 1)..(subs[s].next - 1) :
                visibility_for_agent(events_tx[i], "employee_bob") = "none"
          /\ subs[s].out = <<Connected>>
    /\ qres.status = "200"
    /\ qres.agent_id = "employee_bob"
    /\ \E i \in 1..qres.log_len : visibility_for_agent(traces[i], "employee_bob") = "none"

\* C15: with a credential configured, no trace reaches a caller that did not
\* present it: a rejected query carries no trace, and an SSE connection
\* opened with a missing or wrong x-api-key is handed no trace.
C15_NoTraceWithoutCredential ==
    /\ qres.status = "401" => qres.traces = <<>>
    /\ \A s \in Subs :
          (subs[s].on /\ ~auth_ok(subs[s].cred, api_key)) => Delivered(s) = {}

\* C16: an SSE connection opened without x-employee-name header and without
\* employee_name parameter (or with blank ones) has no identity and is never
\* handed a trace, whatever is published: it holds the acknowledgment only.
C16_NoIdentityNoTrace ==
    /\ resolve_employee_agent_id({}, {}, {}) = {}
    /\ \A s \in Subs :
          (subs[s].on /\ subs[s].agent_id = {}) =>
              /\ Delivered(s) = {}
              /\ \A k \in DOMAIN subs[s].out : subs[s].out[k] = Connected

\* A connection without identity has read past a published trace and holds
\* the acknowledgment only, while a connection with an identity got a trace.
C16_Witness ==
    \E s, t \in Subs :
        /\ subs[s].on
        /\ subs[s].agent_id = {}
        /\ subs[s].next > subs[s].since + 1
        /\ subs[s].out = <<Connected>>
        /\ Delivered(t) # {}

\* C17: every published trace is offered once to every connection open at
\* publication time, and no connection is handed a trace twice: each request
\* is published once; a connection's delivered positions strictly increase;
\* each position since the connection opened is either still to be read or
\* was read once, and then handed over exactly when the identity may see it.
C17_OfferedOnce ==
    /\ \A i, j \in DOMAIN events_tx :
          i # j => events_tx[i].trigger_events # events_tx[j].trigger_events
    /\ \A i \in DOMAIN traces :
          \/ \E j \in DOMAIN events_tx : events_tx[j] = traces[i]
          \/ \E p \in Procs : pc[p] = "send" /\ TraceOf(loc[p]) = traces[i]
    /\ \A s \in Subs : subs[s].on =>
          LET c == subs[s]
              seqs == [k \in DOMAIN c.out |-> c.out[k].seq]
          IN  /\ \A j, k \in DOMAIN seqs : j < k => seqs[j] < seqs[k]
              /\ c.lost = {}
              /\ c.next \in (c.since + 1)..(Len(events_tx) + 1)
              /\ \A x \in Delivered(s) :
                    /\ x[1] \in (c.since + 1)..(c.next - 1)
                    /\ x[2] \in sse_filter(events_tx[x[1]], c.agent_id)
              /\ \A i \in (c.since + 1)..(c.next - 1) :
                    Cardinality({x \in Delivered(s) : x[1] = i}) =
                        Cardinality(sse_filter(events_tx[i], c.agent_id))

\* Two connections were open while two traces were published; one was handed
\* both, the other was offered both and handed the one its identity may see.
C17_Witness ==
    \E s, t \in Subs :
        /\ s # t
        /\ Len(events_tx) = 2
        /\ subs[s].since = 0 /\ subs[s].next = 3 /\ Cardinality(Delivered(s)) = 2
        /\ subs[t].since = 0 /\ subs[t].next = 3 /\ Cardinality(Delivered(t)) = 1

\* C18: a connection is first handed the "connected" acknowledgment, and no
\* trace published before it was opened is ever handed to it, whatever the
\* trace log and the channel held at that time.
C18_NoReplay ==
    \A s \in Subs : subs[s].on =>
        /\ subs[s].out # <<>> => subs[s].out[1] = Connected
        /\ \A k \in DOMAIN subs[s].out : k > 1 => subs[s].out[k].type = "trace"
        /\ \A x \in Delivered(s) : x[1] > subs[s].since
        /\ \A x \in Delivered(s) : \A i \in 1..subs[s].since :
              x[2].trigger_events # events_tx[i].trigger_events

\* A Ceo connection opened after a trace was logged and published holds the
\* acknowledgment and the one trace published since.
C18_Witness ==
    \E s \in Subs :
        /\ subs[s].agent_id = {"employee_john"}
        /\ subs[s].since = 1
        /\ traces # <<>>
        /\ Len(subs[s].out) = 2
        /\ subs[s].out[1] = Connected
        /\ subs[s].out[2].seq = 2

\* The values a connection's receiver can still yield.
Pending(s) ==
    LET r == recv(Len(events_tx), subs[s].next)
    IN  Len(events_tx) - r.next + 1

\* C19: publishing never waits for a connection: the send of a returning
\* request is enabled whatever the connections do and whether or not one
\* exists; no connection has more than 256 values pending; the values a
\* lagging connection loses are the oldest unread ones, each already 256 or
\* more behind the newest and older than everything still pending, while
\* every other value it has read was handed over, in order and once, and a
\* connection that never fell that far behind loses nothing.
C19_PublishNeverBlocks ==
    /\ \A p \in Procs : pc[p] = "ingest_return" => ENABLED IngestReturn(p)
    /\ \A s \in Subs : subs[s].on =>
          LET c == subs[s]
              read == ((c.since + 1)..(c.next - 1)) \ c.lost
              due == {i \in read : sse_filter(events_tx[i], c.agent_id) # {}}
              got == {k \in DOMAIN c.out : c.out[k].type = "trace"}
          IN  /\ Pending(s) <= BroadcastCapacity
              /\ \A l \in c.lost :
                    /\ l <= Len(events_tx) - BroadcastCapacity
                    /\ l \in (c.since + 1)..(c.next - 1)
              /\ \A k \in got :
                    /\ c.out[k].seq \in due
                    /\ c.out[k].data = sse_filter(events_tx[c.out[k].seq], c.agent_id)
                    /\ (k + 1) \in got => c.out[k].seq < c.out[k + 1].seq
              /\ Cardinality(got) = Cardinality(due)
              /\ c.since + BroadcastCapacity >= Len(events_tx) => c.lost = {}

\* The slow connection lost the oldest value and was handed the next one,
\* while a connection opened later lost nothing and was handed the newest.
C19_Witness ==
    /\ Len(events_tx) > BroadcastCapacity
    /\ subs["s1"].lost = {1}
    /\ Len(subs["s1"].out) = 2
    /\ subs["s1"].out[2].seq = 2
    /\ subs["s2"].on
    /\ subs["s2"].lost = {}
    /\ Len(subs["s2"].out) > 1
    /\ subs["s2"].out[Len(subs["s2"].out)].seq = Len(events_tx)

\* The element ids of the nodes of the graph.
GraphNodes(g) == {o.n : o \in g.objects} \cup {v.n : v \in g.versions}

\* The steps of a cycle between the Stage B answer and the trace.
PersistSteps == {"next_decision", "persist_decision", "next_truth", "latest_truth",
                 "persist_truth"}

\* What a step of task p does once the cycle has its result.
PostResultStep(p) ==
    /\ (pc[p] \in PersistSteps /\ pc'[p] # pc[p]) =>
          /\ pc'[p] \in PersistSteps \cup {"add_trace"}
          /\ traces' = traces
          /\ org_truth' = org_truth
          /\ loc'[p].decision_id = loc[p].decision_id
          /\ loc'[p].summary = loc[p].summary
    /\ (pc[p] = "next_decision" /\ pc'[p] # pc[p]) =>
          /\ pc'[p] = "persist_decision"
          /\ graph' = graph
          /\ loc'[p].version \in {1, next_decision_version(graph, loc[p].decision_id)}
    /\ (pc[p] \in {"persist_decision", "persist_truth"} /\ pc'[p] # pc[p]) =>
          /\ pc'[p] = AfterPersist(loc[p])
          /\ graph' = graph => loc'[p].nodes = loc[p].nodes
          /\ graph' # graph =>
                /\ Len(loc'[p].nodes) = Len(loc[p].nodes) + 2
                /\ SubSeq(loc'[p].nodes, 1, Len(loc[p].nodes)) = loc[p].nodes
                /\ Range(loc'[p].nodes) \subseteq GraphNodes(graph')
    /\ (pc[p] = "add_trace" /\ pc'[p] # pc[p]) =>
          /\ traces' = Append(traces, TraceOf(loc[p]))
          /\ pc'[p] = IF loc[p].op = "cli" THEN "idle" ELSE "send"
          /\ Range(TraceOf(loc[p]).graph_updates) \subseteq GraphNodes(graph)
    /\ (pc[p] = "send" /\ pc'[p] # pc[p]) =>
          /\ pc'[p] = "idle"
          /\ events_tx' = Append(events_tx, TraceOf(loc[p]))
          /\ TraceOf(loc[p]) \in Range(traces)

\* C20: once a cycle has its Stage B result, a failing version query or
\* persist transaction is neither surfaced nor rolled back nor retried: a
\* failed query makes the version 1; a persist step that leaves the graph as
\* it was adds no node id to graph_updates and the cycle moves on to the next
\* step; the truth snapshot stays as updated; the cycle always appends its
\* trace to the trace log, holding only ids of nodes that exist, and an ask
\* then returns and publishes that trace.
C20_PersistFailureSwallowed == [][\A p \in Procs : PostResultStep(p)]_vars

\* An ask whose decision write failed is about to return: its trace is in the
\* trace log with no graph_updates, and the graph has no version of the
\* decision.
C20_Witness ==
    \E p \in Procs :
        /\ pc[p] = "send"
        /\ loc[p].op = "ask"
        /\ loc[p].nodes = <<>>
        /\ TraceOf(loc[p]) \in Range(traces)
        /\ VersionsOf(graph, "Decision", loc[p].decision_id) = {}

\* C22: Stage A never fails outward: whatever the completion collaborator
\* does, a request that reached Stage A goes on to the Stage A critical
\* section, which stores exactly one private note under the caller's agent
\* id, emits exactly one event of that agent and hands the request on to
\* Stage B.
C22_StageANeverFailsOutward ==
    [][\A p \in Procs :
        /\ (pc[p] = "stage_a" /\ pc'[p] # "stage_a") => pc'[p] = "stage_a_lock"
        /\ (pc[p] = "stage_a_lock" /\ pc'[p] # "stage_a_lock") =>
              /\ pc'[p] = "stage_b"
              /\ Cardinality(private_store') = Cardinality(private_store) + 1
              /\ \A n \in private_store' \ private_store : n[1] = loc[p].agent
              /\ Len(drained') = Len(drained) + 1
              /\ drained'[Len(drained')].emitted_by = loc[p].agent]_vars

\* The three-step discipline on a completion text: the whole text if it is
\* valid JSON, else the substring from the first '{' to the last '}' if that
\* is valid JSON, else nothing.
Embedded(out, members) ==
    LET opens == {i \in DOMAIN out : out[i] = "{"}
        closes == {i \in DOMAIN out : out[i] = "}"}
        first == CHOOSE i \in opens : \A j \in opens : i <= j
        last == CHOOSE i \in closes : \A j \in closes : j <= i
    IN  IF from_str(out, members) # {} THEN from_str(out, members)
        ELSE IF opens # {} /\ closes # {} /\ first < last
             THEN from_str(SubSeq(out, first, last), members)
        ELSE {}

JsonOf(out) == Embedded(out, EmployeeMembers)

\* What the event and the private note must be for a completion text.
Classified(out) ==
    IF JsonOf(out) # {}
    THEN employee_fields(CHOOSE v \in JsonOf(out) : TRUE)
    ELSE [event_type |-> "update", topic |-> T_general, confidence |-> "0.5",
          private_note |-> out]

StageAResult(e, notes, out) ==
    /\ e.event_type = Classified(out).event_type
    /\ e.topic = Classified(out).topic
    /\ e.confidence = Classified(out).confidence
    /\ \A n \in notes : n[3] = Classified(out).private_note

\* C23: in the HTTP ask path and in the CLI EmployeeAgentNode alike, the
\* event Stage A emits and the note it stores follow the three-step
\* discipline on the completion text: the whole text as JSON, else the
\* substring from the first '{' to the last '}' as JSON, else
\* event_type = update, topic = "general", confidence = 0.5 and the raw text
\* as the private note.
C23_ThreeStepParse ==
    [][\A p \in Procs :
        /\ (pc[p] = "stage_a_lock" /\ pc'[p] = "stage_b") =>
              StageAResult(drained'[Len(drained')], private_store' \ private_store,
                           loc[p].out)
        /\ (pc[p] = "cli_stage_a" /\ pc'[p] = "cli_brain") =>
              StageAResult(queue'[Len(queue')], private_store' \ private_store,
                           loc[p].out)]_vars

\* C24: whatever text the Stage B completion returns (valid JSON, JSON in
\* stray prose, unparsable text), the cycle goes on without an error to a
\* trace with a non-empty decision_id; when neither the text nor its
\* '{'..'}' substring is JSON, the trace has empty evidence and assumptions
\* and the response text is the raw completion text.
C24_StageBAlwaysYieldsTrace ==
    [][\A p \in Procs :
        /\ (pc[p] = "stage_b_parse" /\ pc'[p] # "stage_b_parse") =>
              /\ pc'[p] \in {"next_decision", "add_trace"}
              /\ loc'[p].decision_id # NoId
              /\ Embedded(loc[p].out, OrgMembers) = {} =>
                    /\ loc'[p].evidence = <<>>
                    /\ loc'[p].assumptions = <<>>
                    /\ loc'[p].response_text = loc[p].out
        /\ (loc[p].op \in {"ask", "cli"} /\ pc[p] = "add_trace" /\ pc'[p] # "add_trace") =>
              /\ Len(traces') = Len(traces) + 1
              /\ traces'[Len(traces')].decision_id = loc[p].decision_id
              /\ traces'[Len(traces')].decision_id # NoId
              /\ traces'[Len(traces')].evidence = loc[p].evidence
              /\ traces'[Len(traces')].assumptions = loc[p].assumptions]_vars

\* An ask whose Stage B completion was prose with an unbalanced brace has
\* recorded its trace and is about to answer with the raw text.
C24_Witness ==
    \E p \in Procs :
        /\ pc[p] = "send"
        /\ loc[p].out = <<"x", "{", "x">>
        /\ loc[p].response_text = loc[p].out
        /\ loc[p].decision_id # NoId
        /\ TraceOf(loc[p]) \in Range(traces)
        /\ TraceOf(loc[p]).evidence = <<>>

\* Decision ids in use: of a Decision node, of a recorded trace, of a cycle
\* under way.
UsedDecisionIds ==
    {o.id : o \in {x \in graph.objects : x.label = "Decision"}}
        \cup {traces[i].decision_id : i \in DOMAIN traces}
        \cup {loc[p].decision_id : p \in Procs}

\* The highest version of a decision's chain, 0 for an empty chain.
ChainTop(g, id) ==
    LET vs == {v.version : v \in VersionsOf(g, "Decision", id)}
    IN  IF vs = {} THEN 0 ELSE CHOOSE v \in vs : \A w \in vs : w <= v

\* The decision id a Stage B completion text supplies, if any.
SuppliedIn(out) ==
    {v.decision_id : v \in {w \in Embedded(out, OrgMembers) : "decision_id" \in DOMAIN w}}
        \ {NoId}

Occurrences(ids, k) == Cardinality({i \in DOMAIN ids : ids[i] = k})

\* C27: for each entry of org_updates, a non-empty string is appended to
\* the in-memory snapshot of its truth id and is written as a truth version
\* of that id exactly once (queued once, and the queued write is issued);
\* an empty string or a non-string value leaves the snapshot of its id
\* unchanged and queues no write.
C27_OrgUpdatesApplied ==
    [][\A p \in Procs :
        /\ (pc[p] = "stage_b_updates" /\ pc'[p] # "stage_b_updates") =>
              \A k \in TruthIds :
                  IF /\ k \in DOMAIN loc[p].org_updates
                     /\ loc[p].org_updates[k][1] = "string"
                     /\ loc[p].org_updates[k][2] # ""
                  THEN /\ org_truth'[k] = Append(org_truth[k], loc[p].org_updates[k][2])
                       /\ Occurrences(loc'[p].updates, k) = 1
                  ELSE /\ org_truth'[k] = org_truth[k]
                       /\ Occurrences(loc'[p].updates, k) = 0
        /\ (loc[p].op = "ask" /\ pc[p] = "next_truth" /\ pc'[p] # "next_truth") =>
              /\ pc'[p] = "latest_truth"
              /\ loc'[p].truth_id = Head(loc[p].updates)
              /\ loc'[p].updates = Tail(loc[p].updates)
        /\ (loc[p].op = "ask" /\ pc[p] = "latest_truth" /\ pc'[p] # "latest_truth") =>
              /\ pc'[p] = "persist_truth"
              /\ loc'[p].truth_id = loc[p].truth_id]_vars

\* Task p has a network call in flight.
InNetworkCall(p) == StepAt(p).kind = "reply"

\* C28: a task that is inside a completion request, a retrieval call or a
\* graph transaction does not hold the APP_STATE lock.
C28_NoLockAcrossNetwork ==
    \A p \in Procs : InNetworkCall(p) => lk.holder # p

\* The ask handler has just taken a request: it went on, or it answered.
AskArrived(p) == pc[p] = "idle" /\ (pc'[p] # "idle" \/ (ares' # ares /\ pc' = pc))

\* C29: ask rejects in a fixed order with distinct outcomes: a request with
\* a bad credential is answered 401 unauthorized, whatever else it lacks; a
\* request whose body deserializes, with a good credential and no
\* resolvable identity, is answered
\* 400 "missing x-employee-name", whatever its input; a request with a good
\* credential, an identity and neither non-empty text nor audio is answered
\* 400 "provide either non-empty text or audio_base64"; and a rejected
\* request emits no event, stores no note, writes no version, appends no
\* trace and publishes nothing.
C29_AskRejectionOrder ==
    [][\A p \in Procs :
        AskArrived(p) =>
            LET req == ares'.req
                ids == resolve_employee_agent_id(req.header, req.employee_name, req.agent_id)
                input == non_empty(req.text) \cup non_empty(req.audio_base64)
            IN  /\ ~auth_ok(req.cred, api_key) =>
                      ares'.status = "401" /\ ares'.error = "unauthorized"
                /\ (req.json /\ auth_ok(req.cred, api_key) /\ ids = {}) =>
                      ares'.status = "400" /\ ares'.error = "missing x-employee-name"
                /\ (req.json /\ auth_ok(req.cred, api_key) /\ ids # {} /\ input = {}) =>
                      /\ ares'.status = "400"
                      /\ ares'.error = "provide either non-empty text or audio_base64"
                /\ ares'.status # "none" =>
                      UNCHANGED <<pc, loc, queue, private_seq, private_store, org_truth,
                                  traces, events_tx, graph, subs>>]_vars

\* The top role's agent id.
TopAgent == "employee_john"

\* The positions of the log, as it was when the query ran, whose trace the
\* agent may see, and the k-th newest of them.
VisibleAt(agent_id) ==
    {i \in 1..qres.log_len : visibility_for_agent(traces[i], agent_id) # "none"}

KthNewest(idx, k) == CHOOSE i \in idx : Cardinality({j \in idx : j >= i}) = k

\* C30: the all-traces query answers (status 200, the log newest first,
\* unredacted) only a caller whose identity is the top role's; the per-agent
\* query answers only the top role or the agent asking for its own view, and
\* its answer is the traces visible to the requested agent id, newest first,
\* each with evidence and assumptions emptied when the level resolved for
\* the requested agent id is "summary"; every other caller gets no trace.
C30_TraceAccessGated ==
    /\ qres.status # "200" => qres.traces = <<>>
    /\ (qres.status = "200" /\ qres.agent_id = NoId) =>
          /\ qres.caller = {TopAgent}
          /\ Len(qres.traces) = (IF qres.log_len <= qres.limit THEN qres.log_len ELSE qres.limit)
          /\ \A k \in DOMAIN qres.traces : qres.traces[k] = traces[qres.log_len - k + 1]
    /\ (qres.status = "200" /\ qres.agent_id # NoId) =>
          LET idx == VisibleAt(qres.agent_id)
              n == Cardinality(idx)
          IN  /\ qres.caller \in {{TopAgent}, {qres.agent_id}}
              /\ Len(qres.traces) = (IF n <= qres.limit THEN n ELSE qres.limit)
              /\ \A k \in DOMAIN qres.traces :
                    LET t == traces[KthNewest(idx, k)]
                    IN  qres.traces[k] =
                            IF visibility_for_agent(t, qres.agent_id) = "summary"
                            THEN [t EXCEPT !.evidence = <<>>, !.assumptions = <<>>]
                            ELSE t

\* The top role asked for the Engineer's view of a log that holds a trace
\* hidden from the Engineer and a trace the Engineer sees as a summary, and
\* was answered with the summary copy only.
C30_Witness ==
    /\ qres.status = "200"
    /\ qres.caller = {TopAgent}
    /\ qres.agent_id = "employee_bob"
    /\ \E i \in 1..qres.log_len : visibility_for_agent(traces[i], "employee_bob") = "none"
    /\ \E i \in 1..qres.log_len :
          /\ visibility_for_agent(traces[i], "employee_bob") = "summary"
          /\ traces[i].evidence # <<>>
    /\ Len(qres.traces) = 1
    /\ qres.traces[1].evidence = <<>>

\* The position in the trace log of the trace a returned copy stems from.
LogIndex(t) == CHOOSE i \in DOMAIN traces : traces[i].trigger_events = t.trigger_events

\* C31: a response of either trace query holds at most limit traces, for
\* every limit >= 0, and holds them most recent first: each returned trace
\* stems from a later append than the one returned after it.
C31_NewestFirstWithinLimit ==
    qres.status = "200" =>
        /\ Len(qres.traces) <= qres.limit
        /\ \A k \in DOMAIN qres.traces :
              \E i \in 1..qres.log_len : traces[i].trigger_events = qres.traces[k].trigger_events
        /\ \A k \in DOMAIN qres.traces : \A l \in DOMAIN qres.traces :
              k < l => LogIndex(qres.traces[k]) > LogIndex(qres.traces[l])

\* C32: the trace log is append-only and its entries are immutable: every
\* step leaves each trace already in the log unchanged and at its position;
\* a redacted copy is what a viewer is handed, never what the log holds.
C32_TraceLogAppendOnly ==
    [][/\ Len(traces') >= Len(traces)
       /\ \A i \in DOMAIN traces : traces'[i] = traces[i]]_vars

\* The log holds two traces; the Engineer's query was answered with a copy
\* of one of them without its evidence, and the log still holds that trace
\* with its evidence.
C32_Witness ==
    /\ Len(traces) >= 2
    /\ qres.status = "200"
    /\ qres.agent_id = "employee_bob"
    /\ \E k \in DOMAIN qres.traces : \E i \in DOMAIN traces :
          /\ traces[i].trigger_events = qres.traces[k].trigger_events
          /\ qres.traces[k].evidence = <<>>
          /\ traces[i].evidence # <<>>

\* The keys store_private has returned: those of the stored notes.
NoteKeys(store) == {n[2] : n \in store}

\* C33: a private note is keyed by (agent id, sequence): every step that
\* stores a note stores one note, under its agent id and the advanced
\* sequence, with a key no earlier note has and a sequence component above
\* that of every earlier key of any agent; no step removes or overwrites a
\* stored note, and the sequence never goes back.
C33_PrivateKeysMonotonic ==
    [][/\ private_store \subseteq private_store'
       /\ private_seq' >= private_seq
       /\ Cardinality(private_store' \ private_store) <= 1
       /\ \A n \in private_store' \ private_store :
             /\ private_seq' = private_seq + 1
             /\ n[2] = <<n[1], private_seq'>>
             /\ n[2] \notin NoteKeys(private_store)
             /\ \A k \in NoteKeys(private_store) : k[2] < n[2][2]
       /\ Cardinality(NoteKeys(private_store')) = Cardinality(private_store')]_vars

\* Two employees have each stored a note; the later one has the higher
\* sequence.
C33_Witness ==
    \E n \in private_store, m \in private_store :
        /\ n[1] = "employee_bob"
        /\ m[1] = "employee_sarah"
        /\ n[2][2] = 1
        /\ m[2][2] = 2

\* The level the routing object a version was persisted with gives an
\* agent: its entry, "none" without an entry.
PersistedLevel(v, agent_id) ==
    IF agent_id \in DOMAIN v.routing_json THEN v.routing_json[agent_id] ELSE "none"

\* C34: the viewer-scoped snapshot for agent A holds, as routed versions,
\* only version nodes of the graph whose persisted routing gives A a level
\* other than none (none without an entry); every node it returns is such a
\* version or an end of a relationship that touches one; a failed request
\* returns nothing.
C34_SnapshotRoutedOnly ==
    /\ gsnap.status # "200" => gsnap.versions = {} /\ gsnap.nodes = {}
    /\ \A v \in gsnap.versions :
          /\ v \in graph.versions
          /\ PersistedLevel(v, gsnap.agent_id) # "none"
    /\ \A e \in gsnap.edges : \E v \in gsnap.versions : v.n \in {e[2], e[3]}
    /\ \A n \in gsnap.nodes :
          \/ \E v \in gsnap.versions : v.n = n
          \/ \E e \in gsnap.edges : n \in {e[2], e[3]}

\* The Engineer's snapshot holds a routed version of a decision and, as a
\* node attached to it, the version it supersedes, which was persisted with
\* level none for the Engineer and is not among the routed versions.
C34_Witness ==
    /\ gsnap.status = "200"
    /\ gsnap.agent_id = "employee_bob"
    /\ \E v \in gsnap.versions : \E w \in graph.versions :
          /\ <<"SUPERSEDES", v.n, w.n>> \in gsnap.edges
          /\ PersistedLevel(w, "employee_bob") = "none"
          /\ w \notin gsnap.versions
          /\ w.n \in gsnap.nodes

\* The traces whose trigger_events name an event, and the cycles under way
\* whose batch holds it.
TracesOfEvent(e) == {i \in DOMAIN traces : e.event_id \in Range(traces[i].trigger_events)}

CyclesHolding(e) == {p \in Procs : pc[p] # "idle" /\ e \in Range(loc[p].events)}

\* C35: every event drained from the bus is in the batch of a cycle under
\* way or in the trigger_events of a trace of the log, and never in two
\* traces: no cycle ends having consumed an event without recording a trace.
C35_DrainedEventsTraced ==
    \A k \in DOMAIN drained :
        /\ Cardinality(TracesOfEvent(drained[k])) <= 1
        /\ TracesOfEvent(drained[k]) # {} \/ CyclesHolding(drained[k]) # {}

\* The traces of the log among those an SSE connection was handed.
DeliveredLogged(s) ==
    {x \in Delivered(s) :
        \E i \in DOMAIN traces : traces[i].trigger_events = x[2].trigger_events}

\* C36: a subscriber that was handed two traces of ask requests was handed
\* them in the order in which they were appended to the trace log.
C36_FanoutInLogOrder ==
    \A s \in Subs : \A x \in DeliveredLogged(s) : \A y \in DeliveredLogged(s) :
        x[1] < y[1] => LogIndex(x[2]) < LogIndex(y[2])

\* C37: every trace published on the broadcast channel, by an ask or by a
\* knowledge ingest, is an element of the trace log (the log only grows, so
\* a trace absent now was absent when it was published).
C37_PublishedTracesLogged ==
    \A i \in DOMAIN events_tx : \E j \in DOMAIN traces : traces[j] = events_tx[i]

\* A copy of a trace that still carries evidence or assumptions.
Unredacted(t) == t.evidence # <<>> \/ t.assumptions # <<>>

\* C38: a trace handed to a viewer with evidence or assumptions in it, by
\* the per-agent trace query or by the live stream, is a trace whose level
\* resolved for that viewer is exactly "full".
C38_UnredactedOnlyAtFull ==
    /\ (qres.status = "200" /\ qres.agent_id # NoId) =>
          \A k \in DOMAIN qres.traces :
              Unredacted(qres.traces[k]) =>
                  visibility_for_agent(traces[LogIndex(qres.traces[k])], qres.agent_id) = "full"
    /\ \A s \in Subs : \A x \in Delivered(s) :
          Unredacted(x[2]) =>
              \A aid \in subs[s].agent_id :
                  visibility_for_agent(events_tx[x[1]], aid) = "full"

\* C39: the truth version an ask cycle writes for a truth id carries, as its
\* content, the update string that the cycle's own org_updates gave for
\* that id, whatever other requests did to the id in between.
C39_TruthContentIsOwnUpdate ==
    [][\A p \in Procs :
        (loc[p].op = "ask" /\ pc[p] = "persist_truth" /\ pc'[p] # "persist_truth") =>
            \A v \in graph'.versions \ graph.versions :
                v.summary = update_strings(loc[p].org_updates)[loc[p].truth_id]]_vars

\* The identities the role lookup names.
KnownAgents == {"employee_john", "employee_sarah", "employee_bob"}

\* What the Engineer policy gives a viewer for a trace without a routing
\* entry for it: the redacted copy on an engineering topic, else nothing.
EngineerView(t) ==
    IF role_default_visibility("Engineer", t.topic) = "summary"
    THEN {[t EXCEPT !.evidence = <<>>, !.assumptions = <<>>]}
    ELSE {}

\* C40: a caller whose identity is none of the known ones is treated as an
\* Engineer: the all-traces query and the per-agent query for another
\* agent's id answer it 403 with no trace; and a trace that has no routing
\* entry for it reaches it, through its own per-agent view or its live
\* stream, only as the Engineer policy gives it, never in full.
C40_UnknownIdentityIsEngineer ==
    /\ \A c \in qres.caller \ KnownAgents :
          /\ (qres.status # "none" /\ qres.agent_id # c) =>
                qres.status = "403" /\ qres.traces = <<>>
          /\ (qres.status # "none" /\ qres.agent_id = c) =>
                /\ qres.status = "200"
                /\ \A i \in 1..qres.log_len :
                      c \notin DOMAIN traces[i].routing =>
                          /\ visibility_for_agent(traces[i], c) # "full"
                          /\ {qres.traces[k] : k \in {j \in DOMAIN qres.traces :
                                    LogIndex(qres.traces[j]) = i}} = EngineerView(traces[i])
    /\ \A s \in Subs : \A c \in subs[s].agent_id \ KnownAgents :
          \A k \in DOMAIN subs[s].out :
              (subs[s].out[k].type = "trace"
                   /\ c \notin DOMAIN events_tx[subs[s].out[k].seq].routing) =>
                  subs[s].out[k].data = EngineerView(events_tx[subs[s].out[k].seq])

\* The unknown caller was refused the all-traces query of a log of two
\* traces, and its live stream handed it the redacted copy of a trace that
\* has no routing entry for it.
C40_Witness ==
    /\ qres.status = "403"
    /\ qres.caller = {UnknownAgent}
    /\ qres.agent_id = NoId
    /\ qres.log_len = 2
    /\ \E s \in Subs : \E k \in DOMAIN subs[s].out :
          /\ subs[s].agent_id = {UnknownAgent}
          /\ subs[s].out[k].type = "trace"
          /\ UnknownAgent \notin DOMAIN events_tx[subs[s].out[k].seq].routing
          /\ \E t \in subs[s].out[k].data : t.evidence = <<>>

====
